---- MODULE Spec2Model ----
(***************************************************************************)
(* A model of the corosio reactor runtime: the kqueue scheduler (run,      *)
(* do_one, post, stop, work counting), the per-operation state machine of  *)
(* the kqueue and select socket backends (try-first start, registration,   *)
(* the completion/cancellation claim race, stop-token callbacks), the      *)
(* impl keep-alive and the awaitable that delivers the result; and the     *)
(* service registry of the context (capy::service_provider): find_service, *)
(* use_service, make_service and the destructor.                           *)
(*                                                                         *)
(* No timers are scheduled: calculate_timeout() returns the requested      *)
(* timeout and process_expired() does nothing.                             *)
(***************************************************************************)
EXTENDS Integers, Sequences, FiniteSets, TLC

\* ------------------------------------------------------------- bounds
NumThreads == 2       \* threads that may call run()
NumIoThreads == 1     \* of these, threads that call run() during socket I/O
MaxStarts == 2        \* operations started on the socket, over all slots
MaxBytes == 1         \* largest byte count a syscall reports
MaxWork == 2          \* cap on on_work_started() / post(coro) calls
NumRegThreads == 2    \* threads that call into the service registry
MaxInst == 3          \* service objects constructed over a context's life
MaxDepth == 2         \* registry calls nested through constructors
NumPoolThreads == 2   \* threads that allocate and free coroutine frames
MaxBlocks == 3        \* blocks the frame pool takes from operator new
MaxFrame == 3         \* the largest size passed to frame_pool::allocate
MaxAccepts == 3       \* accept() calls on the acceptor

Threads == 1 .. NumThreads

\* The op slots of one socket impl (rd_, wr_); conn_ has the shape of wr_.
Ops == {"rd", "wr"}
\* The order in which cancel() visits the slots.
OpOrder == <<"rd", "wr">>

\* What the completion queue holds: embedded ops and heap post_handlers.
PostHandler == "ph"

Backends == {"kqueue", "select"}

\* select_registration_state; the kqueue bool uses U (false) and R (true).
U == "unregistered"
ING == "registering"
R == "registered"

NoRes == [ec |-> "none", n |-> 0]
\* "canceled" is capy::error::canceled (stored by operator());
\* "operation_canceled" is errc::operation_canceled (built by await_resume).
Results ==
    [ec : {"ok", "canceled", "operation_canceled", "err", "eof"},
     n : 0 .. MaxBytes]

VARIABLES
    backend,            \* which reactor backend the context was built with
    \* --- scheduler
    outstanding_work,   \* kqueue_scheduler::outstanding_work_
    stopped,            \* kqueue_scheduler::stopped_
    completed_ops,      \* kqueue_scheduler::completed_ops_ (FIFO)
    wakeup_pending,     \* EVFILT_USER triggered and not yet retrieved
    user_work,          \* on_work_started() calls not yet matched
    reg,                \* ops with a live reactor registration (udata)
    \* --- threads in run()
    tpc,                \* position of each thread in run()/do_one()
    tev,                \* events a thread retrieved and has not processed
    ret,                \* why each thread's last run() returned
    \* --- op slots
    spc,                \* position of the start path of each slot
    inflight,           \* started and its coroutine not yet resumed
    registered,         \* kqueue_op::registered / select_op::registered
    cancelled,          \* kqueue_op::cancelled
    impl_ptr,           \* kqueue_op::impl_ptr holds the impl
    errn,               \* kqueue_op::errn (0 or an errno)
    bytes,              \* kqueue_op::bytes_transferred
    empty_buffer_read,  \* kqueue_read_op::empty_buffer_read
    buffer_size,        \* total size of the buffer sequence the caller passed
    stop_cb,            \* kqueue_op::stop_cb is engaged
    tok,                \* the awaitable's stop token: none, armed, fired
    res,                \* what await_resume returned for the last start
    \* --- impl
    fd_open,            \* kqueue_socket_impl::fd_ >= 0
    svc_ref,            \* the service's socket_ptrs_ holds the impl
    destroyed,          \* the impl's last shared_ptr was dropped
    crashed,            \* a use of freed memory faulted
    \* --- history
    starts,             \* operations started so far
    posts,              \* times the current start was put on the queue
    resumes,            \* times the current start resumed its coroutine
    claimer,            \* which path claimed the current start
    precancel,          \* cancellation was requested before that claim
    cancelseen,         \* cancel()/close() visited the current start
    \* --- service registry
    head_,              \* service_provider::head_ and the next_ links
    t0_,                \* service::t0_ of each service object
    t1_,                \* service::t1_ of each service object
    life,               \* each service object: free, new, reg, dead, leak
    mutex_,             \* service_provider::mutex_: 0 or the owning thread
    stack,              \* the registry calls each thread is inside
    raced,              \* <<T, service>> returned by use_service calls
                        \* that constructed a T of their own
    dtor,               \* position of ~service_provider
    dtor_p,             \* the destructor's cursor p, an index into head_
    shut,               \* services whose shutdown() was called, in order
    order               \* services in the order they were registered

\* ------------------------------------------------------------- coroutine state

\* Longest chain of nested tasks under one root task, and the most I/O
\* operations one task awaits itself.
MaxChain == 3
MaxOps == 1

\* Coroutine 0 is the root task (wrapper); 1 .. depth are the nested tasks.
Levels == 0 .. MaxChain

\* Two executors, each the executor of its own context with one thread.
Execs == {"ex1", "ex2"}

\* frame_pool::shared() and an allocator a coroutine's argument exposes.
Allocs == {"shared", "custom"}

NoChain == [depth |-> 0]

VARIABLES
    chain,              \* the launched chain of tasks, NoChain before async_run
    co_pc,              \* where each coroutine stands
    co_left,            \* I/O operations each task still has to await
    ex_,                \* promise_type::ex_ of each coroutine
    caller_ex_,         \* the dispatcher of the coroutine awaiting each task
    op_d,               \* kqueue_op::d of the op each coroutine awaits
    passed_d,           \* the dispatcher given to the last await_suspend
    through,            \* the dispatcher each coroutine was last resumed by
    resumed_on,         \* the executor whose thread last resumed each one
    co_q,               \* the work queue of each executor's context
    co_cur,             \* the coroutine now running, -1 when none
    co_thread,          \* the executor whose thread runs it
    stats,              \* tracking_allocator::stats of each allocator
    hdr_ctx,            \* promise_allocator::header::ctx of each frame
    g_suspend_count,    \* await_suspend calls of I/O operations
    g_resume_count,     \* await_resume calls of I/O operations
    executed            \* work items the executors have run

coVars == <<chain, co_pc, co_left, ex_, caller_ex_, op_d, passed_d, through,
            resumed_on, co_q, co_cur, co_thread, stats, hdr_ctx,
            g_suspend_count, g_resume_count, executed>>

\* ------------------------------------------------------------- work queue state

\* Work items that exist, threads that use the reactor, and how often one
\* item may be enqueued (an embedded item is enqueued again after it ran).
MaxItems == 3
NumQThreads == 2
MaxPushes == 2

\* The null pointer of the intrusive list.
Null == 0

WorkItems == 1 .. MaxItems

QThreads == 1 .. NumQThreads

\* Queue 0 is platform_reactor_impl::q_; queue t is the local `q` of the
\* process() call of thread t.
QIds == 0 .. NumQThreads

VARIABLES
    next_,              \* executor_work::next_ of each item
    q_head_,            \* executor_work_queue::head_ of each queue
    q_tail_,            \* executor_work_queue::tail_ of each queue
    enq,                \* the items enqueued in each queue and not yet popped
    popped,             \* what the last pop() returned
    expected,           \* the oldest item enqueued before that pop(), or Null
    pushes,             \* how often each item has been enqueued
    pending,            \* the item is enqueued and neither ran nor was destroyed
    ran,                \* operator() calls of each item
    destroyed_n,        \* destroy() calls of each item
    rpc,                \* where each thread stands in process()
    reactor_shut,       \* platform_reactor_impl::shutdown: no, running, done
    doomed,             \* the items that were queued when shutdown began
    shutdown_,          \* kqueue_scheduler::shutdown_
    sched_doomed,       \* handlers queued when the scheduler was shut down
    sched_destroyed     \* destroy() calls kqueue_scheduler::shutdown made

wqVars == <<next_, q_head_, q_tail_, enq, popped, expected, pushes, pending,
            ran, destroyed_n, rpc, reactor_shut, doomed, shutdown_,
            sched_doomed, sched_destroyed>>

\* ------------------------------------------------------------- signal state

NumSigSets == 4       \* signal sets: the last one lives in the second context
NumSignals == 2       \* signal numbers
MaxUndelivered == 1   \* cap on a registration's queued deliveries
MaxRegs == 3          \* cap on the registrations that exist at once

SigSets == 1 .. NumSigSets
Signals == 1 .. NumSignals
SigCtxs == {1, 2}
SigFlags == {"none", "restart", "dont_care"}

VARIABLES
    signals_,             \* posix_signal_impl::signals_, sorted by number
    registrations_,       \* posix_signals::registrations_[n], newest first
    registration_count,   \* signal_state::registration_count[n]
    registration_count_,  \* posix_signals::registration_count_[n]
    handler,              \* what ::signal last installed for n
    impl_live,            \* the set's posix_signal_impl exists
    svc_live,             \* the context's posix_signals is in service_list
    waiting_,             \* posix_signal_impl::waiting_
    sig_pc,               \* where the set's wait is
    op_signal_number,     \* pending_op_.signal_number
    op_svc,               \* pending_op_.svc is set
    aw_out,               \* wait_awaitable::ec_ and signal_number_
    wait_result,          \* what await_resume returned
    sig_stopped,       \* the wait's stop token
    sig_work,             \* on_work_started minus on_work_finished
    last_add              \* the last add(): its outcome and what it met

sigVars == <<signals_, registrations_, registration_count,
             registration_count_, handler, impl_live, svc_live, waiting_,
             sig_pc, op_signal_number, op_svc, aw_out, wait_result, sig_stopped, sig_work,
             last_add>>

\* The frame pool: blocks are numbered in the order operator new made them.
VARIABLES
    local_head,           \* local_pool::head of each thread, as a list
    global_head,          \* global_pool::head, as a list
    block_size,           \* block::size, 0 while the block does not exist
    block_at,             \* "none", "pool", or "held" by a caller
    block_n,              \* the n of the allocate() that returned the block
    block_from            \* where that allocate() took the block from

fpVars == <<local_head, global_head, block_size, block_at, block_n,
            block_from>>

\* The accept op of one acceptor impl (acc_) and what its caller receives.
VARIABLES
    acc_pc,               \* idle, registered, queued, loaded (inside
                          \* operator(), success computed), done
    acc_cancelled,        \* acc_.cancelled
    acc_registered,       \* acc_.registered is set
    acc_errn,             \* acc_.errn: 0 or an errno
    accepted_fd,          \* "none" (-1), or the descriptor, open or closed
    peer_impl,            \* the peer impl made for this op: none, held by
                          \* the op, handed to the caller, released
    acc_success,          \* operator()'s local `success`
    acc_stop_cb,          \* acc_.stop_cb is engaged and has not fired
    acc_ec_out,           \* *ec_out
    impl_out,             \* *impl_out: unset, null or the peer
    accepts               \* accept() calls so far

accVars == <<acc_pc, acc_cancelled, acc_registered, acc_errn, accepted_fd,
             peer_impl, acc_success, acc_stop_cb, acc_ec_out, impl_out,
             accepts>>

extVars == <<fpVars, accVars>>

auxVars == <<coVars, wqVars, sigVars, extVars>>

schedVars == <<outstanding_work, stopped, completed_ops, wakeup_pending,
               user_work, reg>>
thrVars == <<tpc, tev, ret>>
opVars == <<spc, inflight, registered, cancelled, impl_ptr, errn, bytes,
            empty_buffer_read, buffer_size, stop_cb, tok, res>>
implVars == <<fd_open, svc_ref, destroyed, crashed>>
histVars == <<starts, posts, resumes, claimer, precancel, cancelseen>>
regVars == <<head_, t0_, t1_, life, mutex_, stack, raced, dtor, dtor_p,
             shut, order>>
ioVars == <<backend, schedVars, thrVars, opVars, implVars, histVars>>
vars == <<ioVars, regVars, auxVars>>

\* ------------------------------------------------------------- helpers

Min(a, b) == IF a < b THEN a ELSE b

IoThreads == 1 .. Min(NumIoThreads, NumThreads)

\* kqueue_read_op::is_read_operation; the other ops inherit `false`.
is_read_operation(o) == o = "rd" /\ ~empty_buffer_read[o]

\* The error kqueue_op::operator() stores through ec_out, read from the
\* op's fields; "ok" is the awaitable's untouched default error_code.
HandlerEc(o) ==
    IF cancelled[o] THEN "canceled"
    ELSE IF errn[o] # 0 THEN "err"
    ELSE IF is_read_operation(o) /\ bytes[o] = 0 THEN "eof"
    ELSE "ok"

\* An await_resume that never consults the stop token.
await_resume_unchecked(stop_requested, ec, n) == [ec |-> ec, n |-> n]

\* read_some_awaitable::await_resume, given token_.stop_requested() and
\* the ec_ and bytes_transferred_ the handler stored.
await_resume(stop_requested, ec, n) ==
    IF stop_requested THEN [ec |-> "operation_canceled", n |-> 0]
    ELSE [ec |-> ec, n |-> n]

\* A request_cancel that stores nothing.
request_cancel_noop(o) == cancelled[o]

\* kqueue_op::request_cancel: the value it stores into `cancelled`.
request_cancel(o) == TRUE

\* The subsequence of s whose elements are in S.
RECURSIVE Filter(_, _)
Filter(s, S) ==
    IF s = <<>> THEN <<>>
    ELSE (IF Head(s) \in S THEN <<Head(s)>> ELSE <<>>) \o Filter(Tail(s), S)

InQueue(o) == \E k \in 1 .. Len(completed_ops) : completed_ops[k] = o

\* ------------------------------------------------------------- registry types

RegThreads == 1 .. NumRegThreads

\* Service types: K has no key_type and is the key_type of A; S stands alone.
Types == {"K", "A", "S"}

\* typeid(void), the t0_/t1_ of a service object not yet indexed.
Void == "void"

\* get_key<T>: the nested key_type, or T itself where there is none.
key_type(T) == IF T = "A" THEN "K" ELSE T

Insts == 1 .. MaxInst

RegOps == {"find", "use", "make"}


\* No task has been launched: no frame, empty queues, zeroed counters.
CoInit ==
    /\ chain = NoChain
    /\ co_pc = [i \in Levels |-> "none"]
    /\ co_left = [i \in Levels |-> 0]
    /\ ex_ = [i \in Levels |-> "ex1"]
    /\ caller_ex_ = [i \in Levels |-> "ex1"]
    /\ op_d = [i \in Levels |-> "ex1"]
    /\ passed_d = [i \in Levels |-> "ex1"]
    /\ through = [i \in Levels |-> "ex1"]
    /\ resumed_on = [i \in Levels |-> "ex1"]
    /\ co_q = [e \in Execs |-> <<>>]
    /\ co_cur = -1
    /\ co_thread = "ex1"
    /\ stats = [a \in Allocs |->
                   [alloc_count |-> 0, dealloc_count |-> 0,
                    bytes_allocated |-> 0, bytes_deallocated |-> 0]]
    /\ hdr_ctx = [i \in Levels |-> "shared"]
    /\ g_suspend_count = 0
    /\ g_resume_count = 0
    /\ executed = 0

\* No registration, default handlers, no wait.
SigInit ==
    /\ signals_ = [s \in SigSets |-> <<>>]
    /\ registrations_ = [c \in SigCtxs |-> [n \in Signals |-> <<>>]]
    /\ registration_count = [n \in Signals |-> 0]
    /\ registration_count_ = [c \in SigCtxs |-> [n \in Signals |-> 0]]
    /\ handler = [n \in Signals |-> "SIG_DFL"]
    /\ impl_live = [s \in SigSets |-> TRUE]
    /\ svc_live = [c \in SigCtxs |-> TRUE]
    /\ waiting_ = [s \in SigSets |-> FALSE]
    /\ sig_pc = [s \in SigSets |-> "idle"]
    /\ op_signal_number = [s \in SigSets |-> 0]
    /\ op_svc = [s \in SigSets |-> FALSE]
    /\ aw_out = [s \in SigSets |-> [ec |-> "ok", n |-> 0]]
    /\ wait_result = [s \in SigSets |-> [ec |-> "ok", n |-> 0]]
    /\ sig_stopped = [s \in SigSets |-> FALSE]
    /\ sig_work = [c \in SigCtxs |-> 0]
    /\ last_add = [ec |-> "ok", conflict |-> FALSE]

\* No accept started: the op as constructed, the caller's outputs unset.
AccInit ==
    /\ acc_pc = "idle"
    /\ acc_cancelled = FALSE
    /\ acc_registered = FALSE
    /\ acc_errn = 0
    /\ accepted_fd = "none"
    /\ peer_impl = "none"
    /\ acc_success = FALSE
    /\ acc_stop_cb = FALSE
    /\ acc_ec_out = "ok"
    /\ impl_out = "unset"
    /\ accepts = 0

\* Both free lists empty, no block made yet.
FpInit ==
    /\ local_head = [t \in 1 .. NumPoolThreads |-> <<>>]
    /\ global_head = <<>>
    /\ block_size = [b \in 1 .. MaxBlocks |-> 0]
    /\ block_at = [b \in 1 .. MaxBlocks |-> "none"]
    /\ block_n = [b \in 1 .. MaxBlocks |-> 0]
    /\ block_from = [b \in 1 .. MaxBlocks |-> "none"]

\* Every queue empty, every item fresh.
WqInit ==
    /\ next_ = [w \in WorkItems |-> Null]
    /\ q_head_ = [k \in QIds |-> Null]
    /\ q_tail_ = [k \in QIds |-> Null]
    /\ enq = [k \in QIds |-> <<>>]
    /\ popped = Null
    /\ expected = Null
    /\ pushes = [w \in WorkItems |-> 0]
    /\ pending = [w \in WorkItems |-> FALSE]
    /\ ran = [w \in WorkItems |-> 0]
    /\ destroyed_n = [w \in WorkItems |-> 0]
    /\ rpc = [t \in QThreads |-> "idle"]
    /\ reactor_shut = "no"
    /\ doomed = {}
    /\ shutdown_ = FALSE
    /\ sched_doomed = 0
    /\ sched_destroyed = 0

Init ==
    /\ WqInit
    /\ FpInit
    /\ AccInit
    /\ SigInit
    /\ CoInit
    /\ backend \in Backends
    /\ outstanding_work = 0
    /\ stopped = FALSE
    /\ completed_ops = <<>>
    /\ wakeup_pending = FALSE
    /\ user_work = 0
    /\ reg = {}
    /\ tpc = [t \in Threads |-> "out"]
    /\ tev = [t \in Threads |-> {}]
    /\ ret = [t \in Threads |-> "none"]
    /\ spc = [o \in Ops |-> "none"]
    /\ inflight = [o \in Ops |-> FALSE]
    /\ registered = [o \in Ops |-> U]
    /\ cancelled = [o \in Ops |-> FALSE]
    /\ impl_ptr = [o \in Ops |-> FALSE]
    /\ errn = [o \in Ops |-> 0]
    /\ bytes = [o \in Ops |-> 0]
    /\ empty_buffer_read = [o \in Ops |-> FALSE]
    /\ buffer_size = [o \in Ops |-> MaxBytes]
    /\ stop_cb = [o \in Ops |-> FALSE]
    /\ tok = [o \in Ops |-> "none"]
    /\ res = [o \in Ops |-> NoRes]
    /\ fd_open = TRUE
    /\ svc_ref = TRUE
    /\ destroyed = FALSE
    /\ crashed = FALSE
    /\ starts = 0
    /\ posts = [o \in Ops |-> 0]
    /\ resumes = [o \in Ops |-> 0]
    /\ claimer = [o \in Ops |-> "none"]
    /\ precancel = [o \in Ops |-> FALSE]
    /\ cancelseen = [o \in Ops |-> FALSE]
    /\ head_ = <<>>
    /\ t0_ = [i \in Insts |-> Void]
    /\ t1_ = [i \in Insts |-> Void]
    /\ life = [i \in Insts |-> "free"]
    /\ mutex_ = 0
    /\ stack = [t \in RegThreads |-> <<>>]
    /\ raced = {}
    /\ dtor = "none"
    /\ dtor_p = 1
    /\ shut = <<>>
    /\ order = <<>>

\* ------------------------------------------------------------- impl lifetime

\* The impl's shared_ptr count is zero: the service dropped it and no op
\* holds impl_ptr.
NoOwner(ip, sr) == ~sr /\ \A o \in Ops : ~ip[o]

\* ------------------------------------------------------------- start path

\* What the first non-blocking attempt of a start can report.
\* The start path sees the caller's buffer sequence (`bufs`, the size of
\* each buffer as copy_to delivers them, empty ones included) and, unless it
\* takes the empty-buffer shortcut, what readv/writev reports; a transfer
\* never exceeds the space offered.
BufferSeqs == {<<>>, <<0>>, <<0, 0>>, <<MaxBytes>>}

RECURSIVE buffer_size_of(_)
buffer_size_of(bufs) ==
    IF bufs = <<>> THEN 0 ELSE Head(bufs) + buffer_size_of(Tail(bufs))

\* The test read_some makes on the copied buffers before it sets
\* empty_buffer_read: no buffer, or exactly one buffer of size zero.
empty_buffers(bufs) == Len(bufs) = 0 \/ (Len(bufs) = 1 /\ bufs[1] = 0)

SysOutcomes ==
    {out \in [k : {"n", "err", "again", "empty"}, n : 0 .. MaxBytes,
              bufs : BufferSeqs] :
        /\ out.k = "empty" <=> empty_buffers(out.bufs)
        /\ out.k # "n" => out.n = 0
        /\ out.n <= buffer_size_of(out.bufs)}

\* The (errn, bytes) a start path passes to complete() before posting.
\* writev returning 0 takes the `errno ? errno : EIO` branch.
StartErrn(o, out) ==
    IF out.k = "err" \/ (out.k = "n" /\ out.n = 0 /\ o = "wr") THEN 1 ELSE 0

StartBytes(o, out) == IF out.k = "n" THEN out.n ELSE 0

\* A start that leaves `cancelled` as an earlier cancel() set it.
StartOpSticky(o, tk, out) ==
    /\ ~crashed /\ svc_ref /\ fd_open
    /\ ~inflight[o] /\ spc[o] = "none" /\ ~InQueue(o)
    /\ starts < MaxStarts
    /\ (o = "wr" => out.bufs = <<MaxBytes>>)
    /\ starts' = starts + 1
    /\ inflight' = [inflight EXCEPT ![o] = TRUE]
    /\ tok' = [tok EXCEPT ![o] = tk]
    /\ stop_cb' = [stop_cb EXCEPT ![o] = tk # "none"]
    /\ cancelled' = [cancelled EXCEPT
           ![o] = IF tk = "fired" THEN request_cancel(o) ELSE cancelled[o]]
    /\ precancel' = [precancel EXCEPT ![o] = tk = "fired" /\ out.k # "again"]
    /\ cancelseen' = [cancelseen EXCEPT ![o] = FALSE]
    /\ resumes' = [resumes EXCEPT ![o] = 0]
    /\ res' = [res EXCEPT ![o] = NoRes]
    /\ empty_buffer_read' = [empty_buffer_read EXCEPT ![o] = out.k = "empty"]
    /\ buffer_size' = [buffer_size EXCEPT ![o] = buffer_size_of(out.bufs)]
    /\ IF out.k = "again"
       THEN /\ outstanding_work' = outstanding_work + 1
            /\ registered' = [registered EXCEPT
                   ![o] = IF backend = "select" THEN ING ELSE R]
            /\ spc' = [spc EXCEPT ![o] = "reg"]
            /\ errn' = [errn EXCEPT ![o] = 0]
            /\ bytes' = [bytes EXCEPT ![o] = 0]
            /\ impl_ptr' = [impl_ptr EXCEPT ![o] = FALSE]
            /\ posts' = [posts EXCEPT ![o] = 0]
            /\ claimer' = [claimer EXCEPT ![o] = "none"]
            /\ UNCHANGED <<completed_ops, wakeup_pending>>
       ELSE /\ outstanding_work' = outstanding_work + 1
            /\ completed_ops' = Append(completed_ops, o)
            /\ wakeup_pending' = TRUE
            /\ registered' = [registered EXCEPT ![o] = U]
            /\ spc' = spc
            /\ errn' = [errn EXCEPT ![o] = StartErrn(o, out)]
            /\ bytes' = [bytes EXCEPT ![o] = StartBytes(o, out)]
            /\ impl_ptr' = [impl_ptr EXCEPT ![o] = backend = "select"]
            /\ posts' = [posts EXCEPT ![o] = 1]
            /\ claimer' = [claimer EXCEPT ![o] = "imm"]
    /\ UNCHANGED <<auxVars, regVars, backend, stopped, user_work, reg, thrVars, implVars>>

\* read_some / write_some: reset, start(token), the syscall, and either
\* complete + post or work_started + registered.store.  With the token
\* already stopped the stop_callback constructor runs the canceller inline:
\* the op is not registered yet, so on both backends it only sets
\* `cancelled`.  The select paths install impl_ptr before they post.
StartOp(o, tk, out) ==
    /\ ~crashed /\ svc_ref /\ fd_open
    /\ ~inflight[o] /\ spc[o] = "none" /\ ~InQueue(o)
    /\ starts < MaxStarts
    /\ (o = "wr" => out.bufs = <<MaxBytes>>)
    /\ starts' = starts + 1
    /\ inflight' = [inflight EXCEPT ![o] = TRUE]
    /\ tok' = [tok EXCEPT ![o] = tk]
    /\ stop_cb' = [stop_cb EXCEPT ![o] = tk # "none"]
    /\ cancelled' = [cancelled EXCEPT
           ![o] = IF tk = "fired" THEN request_cancel(o) ELSE FALSE]
    /\ precancel' = [precancel EXCEPT ![o] = tk = "fired" /\ out.k # "again"]
    /\ cancelseen' = [cancelseen EXCEPT ![o] = FALSE]
    /\ resumes' = [resumes EXCEPT ![o] = 0]
    /\ res' = [res EXCEPT ![o] = NoRes]
    /\ empty_buffer_read' = [empty_buffer_read EXCEPT ![o] = out.k = "empty"]
    /\ buffer_size' = [buffer_size EXCEPT ![o] = buffer_size_of(out.bufs)]
    /\ IF out.k = "again"
       THEN /\ outstanding_work' = outstanding_work + 1
            /\ registered' = [registered EXCEPT
                   ![o] = IF backend = "select" THEN ING ELSE R]
            /\ spc' = [spc EXCEPT ![o] = "reg"]
            /\ errn' = [errn EXCEPT ![o] = 0]
            /\ bytes' = [bytes EXCEPT ![o] = 0]
            /\ impl_ptr' = [impl_ptr EXCEPT ![o] = FALSE]
            /\ posts' = [posts EXCEPT ![o] = 0]
            /\ claimer' = [claimer EXCEPT ![o] = "none"]
            /\ UNCHANGED <<completed_ops, wakeup_pending>>
       ELSE /\ outstanding_work' = outstanding_work + 1
            /\ completed_ops' = Append(completed_ops, o)
            /\ wakeup_pending' = TRUE
            /\ registered' = [registered EXCEPT ![o] = U]
            /\ spc' = spc
            /\ errn' = [errn EXCEPT ![o] = StartErrn(o, out)]
            /\ bytes' = [bytes EXCEPT ![o] = StartBytes(o, out)]
            /\ impl_ptr' = [impl_ptr EXCEPT ![o] = backend = "select"]
            /\ posts' = [posts EXCEPT ![o] = 1]
            /\ claimer' = [claimer EXCEPT ![o] = "imm"]
    /\ UNCHANGED <<auxVars, regVars, backend, stopped, user_work, reg, thrVars, implVars>>

\* kqueue_scheduler::register_fd: EV_ADD|EV_ONESHOT with udata = op.  For
\* kqueue it ends the start path; for select the CAS follows.
register_fd(o) ==
    /\ ~crashed
    /\ spc[o] = "reg"
    /\ reg' = reg \cup {o}
    /\ spc' = [spc EXCEPT ![o] = IF backend = "select" THEN "cas" ELSE "none"]
    /\ UNCHANGED <<auxVars, regVars, backend, outstanding_work, stopped, user_work, completed_ops,
                   wakeup_pending, thrVars, inflight, registered, cancelled,
                   impl_ptr, errn, bytes, empty_buffer_read, buffer_size, stop_cb, tok,
                   res, implVars, histVars>>

\* A start path that returns on a failed CAS without deregister_fd.
StartCasNoDeregister(o) ==
    /\ ~crashed
    /\ spc[o] = "cas"
    /\ IF registered[o] = ING
       THEN /\ registered' = [registered EXCEPT ![o] = R]
            /\ spc' = [spc EXCEPT ![o] = "chk"]
       ELSE /\ registered' = registered
            /\ spc' = [spc EXCEPT ![o] = "none"]
    /\ UNCHANGED <<auxVars, regVars, backend, outstanding_work, stopped, user_work, completed_ops,
                   wakeup_pending, thrVars, inflight, cancelled, reg,
                   impl_ptr, errn, bytes, empty_buffer_read, buffer_size, stop_cb, tok,
                   res, implVars, histVars>>

\* select read_some: compare_exchange_strong(registering -> registered);
\* on failure deregister_fd and return.
StartCas(o) ==
    /\ ~crashed
    /\ spc[o] = "cas"
    /\ IF registered[o] = ING
       THEN /\ registered' = [registered EXCEPT ![o] = R]
            /\ spc' = [spc EXCEPT ![o] = "chk"]
            /\ reg' = reg
       ELSE /\ registered' = registered
            /\ spc' = [spc EXCEPT ![o] = "none"]
            /\ reg' = reg \ {o}
    /\ UNCHANGED <<auxVars, regVars, backend, outstanding_work, stopped, user_work, completed_ops,
                   wakeup_pending, thrVars, inflight, cancelled,
                   impl_ptr, errn, bytes, empty_buffer_read, buffer_size, stop_cb, tok,
                   res, implVars, histVars>>

\* select read_some: "If cancelled was set before we registered, handle it
\* now": exchange to unregistered and, if that claimed the op, deregister,
\* install impl_ptr, post, work_finished.
StartCheckCancelled(o) ==
    /\ ~crashed
    /\ spc[o] = "chk"
    /\ spc' = [spc EXCEPT ![o] = "none"]
    /\ IF cancelled[o] /\ registered[o] # U
       THEN /\ registered' = [registered EXCEPT ![o] = U]
            /\ reg' = reg \ {o}
            /\ impl_ptr' = [impl_ptr EXCEPT ![o] = TRUE]
            /\ completed_ops' = Append(completed_ops, o)
            /\ wakeup_pending' = TRUE
            /\ posts' = [posts EXCEPT ![o] = @ + 1]
            /\ claimer' = [claimer EXCEPT ![o] = "start"]
       ELSE UNCHANGED <<registered, reg, impl_ptr, completed_ops,
                        wakeup_pending, posts, claimer>>
    /\ UNCHANGED <<auxVars, regVars, backend, outstanding_work, stopped, user_work, thrVars, inflight,
                   cancelled, errn, bytes, empty_buffer_read, buffer_size, stop_cb, tok,
                   res, implVars, starts, resumes, precancel, cancelseen>>

\* ------------------------------------------------------------- cancellation

\* A cancel() that posts every in-flight op whatever its exchange returned.
CancelClaimsUnchecked == {o \in Ops : inflight[o]}

\* The slots cancel() claims: its exchange returned a value other than
\* unregistered.
CancelClaims == {o \in Ops : registered[o] # U}

\* A cancel_op that posts without installing the keep-alive.
KeepAliveOmitted(o) == impl_ptr[o]

\* cancel_op's `op.impl_ptr = self` for the ops it claims.
KeepAlive(o) == impl_ptr[o] \/ o \in CancelClaims

\* The stop token of o's awaitable is signalled.  An engaged stop_cb runs
\* the canceller: kqueue_op::canceller calls request_cancel();
\* select_op::canceller calls cancel(), i.e. cancel_single_op (exchange,
\* request_cancel, and on a claim deregister, impl_ptr, post,
\* work_finished).
canceller(o) ==
    /\ ~crashed
    /\ inflight[o] /\ tok[o] = "armed"
    /\ tok' = [tok EXCEPT ![o] = "fired"]
    /\ IF stop_cb[o]
       THEN /\ cancelled' = [cancelled EXCEPT ![o] = request_cancel(o)]
            /\ IF backend = "select" /\ registered[o] # U
               THEN /\ registered' = [registered EXCEPT ![o] = U]
                    /\ reg' = reg \ {o}
                    /\ impl_ptr' = [impl_ptr EXCEPT ![o] = TRUE]
                    /\ completed_ops' = Append(completed_ops, o)
                    /\ wakeup_pending' = TRUE
                    /\ posts' = [posts EXCEPT ![o] = @ + 1]
                    /\ claimer' = [claimer EXCEPT ![o] = "stop"]
               ELSE UNCHANGED <<registered, reg, impl_ptr, completed_ops,
                                wakeup_pending, posts, claimer>>
       ELSE UNCHANGED <<cancelled, registered, reg, impl_ptr,
                        completed_ops, wakeup_pending, posts, claimer>>
    /\ UNCHANGED <<auxVars, regVars, backend, outstanding_work, stopped, user_work, thrVars, spc, inflight,
                   errn, bytes, empty_buffer_read, buffer_size, stop_cb, res, implVars,
                   starts, resumes, precancel, cancelseen>>

\* kqueue_socket_impl::cancel / select_socket_impl::cancel: cancel_op on
\* every slot in order.  Each claimed op is posted (+1) and then
\* work_finished (-1) is called, so outstanding_work_ ends where it began.
cancel ==
    /\ ~crashed /\ svc_ref
    /\ \A o \in Ops : spc[o] = "none"
    /\ registered' = [o \in Ops |-> U]
    /\ cancelled' = [o \in Ops |-> request_cancel(o)]
    /\ cancelseen' = [o \in Ops |-> inflight[o]]
    /\ reg' = reg \ CancelClaims
    /\ impl_ptr' = [o \in Ops |-> KeepAlive(o)]
    /\ completed_ops' = completed_ops \o Filter(OpOrder, CancelClaims)
    /\ wakeup_pending' = (wakeup_pending \/ CancelClaims # {})
    /\ posts' = [o \in Ops |-> IF o \in CancelClaims THEN posts[o] + 1
                               ELSE posts[o]]
    /\ claimer' = [o \in Ops |-> IF o \in CancelClaims THEN "cancel"
                                 ELSE claimer[o]]
    /\ UNCHANGED <<auxVars, regVars, backend, outstanding_work, stopped, user_work, thrVars, spc, inflight,
                   errn, bytes, empty_buffer_read, buffer_size, stop_cb, tok, res,
                   implVars, starts, resumes, precancel>>

\* socket::close -> kqueue_socket_impl::release: close_socket() (cancel,
\* unregister both filters, ::close) and then destroy_impl, which erases
\* the service's shared_ptr.  The impl dies here unless an op holds
\* impl_ptr; its ops' stop callbacks die with it.
close ==
    /\ ~crashed /\ svc_ref
    /\ \A o \in Ops : spc[o] = "none"
    /\ registered' = [o \in Ops |-> U]
    /\ cancelled' = [o \in Ops |-> request_cancel(o)]
    /\ cancelseen' = [o \in Ops |-> inflight[o]]
    /\ reg' = {}
    /\ impl_ptr' = [o \in Ops |-> KeepAlive(o)]
    /\ completed_ops' = completed_ops \o Filter(OpOrder, CancelClaims)
    /\ wakeup_pending' = (wakeup_pending \/ CancelClaims # {})
    /\ posts' = [o \in Ops |-> IF o \in CancelClaims THEN posts[o] + 1
                               ELSE posts[o]]
    /\ claimer' = [o \in Ops |-> IF o \in CancelClaims THEN "close"
                                 ELSE claimer[o]]
    /\ fd_open' = FALSE
    /\ svc_ref' = FALSE
    /\ destroyed' = NoOwner(impl_ptr', FALSE)
    /\ stop_cb' = IF destroyed' THEN [o \in Ops |-> FALSE] ELSE stop_cb
    /\ UNCHANGED <<auxVars, regVars, backend, outstanding_work, stopped, user_work, thrVars, spc, inflight,
                   errn, bytes, empty_buffer_read, buffer_size, tok, res, crashed,
                   starts, resumes, precancel>>

\* ------------------------------------------------------------- scheduler API

\* kqueue_scheduler::wakeup, as stop() calls it: NOTE_TRIGGER on the one
\* EVFILT_USER event; triggering an already triggered event changes nothing.
\* kqueue_scheduler::stop: the CAS false -> true and, if it won, wakeup().
stop ==
    /\ ~crashed
    /\ ~stopped
    /\ stopped' = TRUE
    /\ wakeup_pending' = TRUE
    /\ UNCHANGED <<auxVars, regVars, backend, outstanding_work, completed_ops, user_work, reg,
                   thrVars, opVars, implVars, histVars>>

\* kqueue_scheduler::restart: stopped_.store(false).  It is called between
\* runs, when no thread is inside run().
restart ==
    /\ ~crashed
    /\ stopped
    /\ \A t \in Threads : tpc[t] = "out"
    /\ stopped' = FALSE
    /\ UNCHANGED <<auxVars, regVars, backend, outstanding_work, completed_ops, wakeup_pending,
                   user_work, reg, thrVars, opVars, implVars, histVars>>

\* A post that pushes the handler and does not wake the reactor.
post_unsignalled ==
    /\ ~crashed
    /\ Len(SelectSeq(completed_ops, LAMBDA x : x = PostHandler)) < MaxWork
    /\ outstanding_work' = outstanding_work + 1
    /\ completed_ops' = Append(completed_ops, PostHandler)
    /\ UNCHANGED <<auxVars, regVars, backend, stopped, wakeup_pending, user_work, reg, thrVars,
                   opVars, implVars, histVars>>

\* A post that pushes without counting the item.
post_uncounted ==
    /\ ~crashed
    /\ Len(SelectSeq(completed_ops, LAMBDA x : x = PostHandler)) < MaxWork
    /\ completed_ops' = Append(completed_ops, PostHandler)
    /\ wakeup_pending' = TRUE
    /\ UNCHANGED <<auxVars, regVars, backend, outstanding_work, stopped, user_work, reg,
                   thrVars, opVars, implVars, histVars>>

\* kqueue_scheduler::post(capy::coro): fetch_add, push a post_handler,
\* wakeup().
post ==
    /\ ~crashed
    /\ Len(SelectSeq(completed_ops, LAMBDA x : x = PostHandler)) < MaxWork
    /\ outstanding_work' = outstanding_work + 1
    /\ completed_ops' = Append(completed_ops, PostHandler)
    /\ wakeup_pending' = TRUE
    /\ UNCHANGED <<auxVars, regVars, backend, stopped, user_work, reg, thrVars, opVars,
                   implVars, histVars>>

\* kqueue_scheduler::on_work_started.
on_work_started ==
    /\ ~crashed
    /\ user_work < MaxWork
    /\ user_work' = user_work + 1
    /\ outstanding_work' = outstanding_work + 1
    /\ UNCHANGED <<auxVars, regVars, backend, stopped, completed_ops, wakeup_pending, reg,
                   thrVars, opVars, implVars, histVars>>

\* kqueue_scheduler::on_work_finished: fetch_sub and, if the old value was
\* 1, stop().
on_work_finished ==
    /\ ~crashed
    /\ user_work > 0
    /\ user_work' = user_work - 1
    /\ outstanding_work' = outstanding_work - 1
    /\ IF outstanding_work = 1 /\ ~stopped
       THEN stopped' = TRUE /\ wakeup_pending' = TRUE
       ELSE UNCHANGED <<stopped, wakeup_pending>>
    /\ UNCHANGED <<auxVars, regVars, backend, completed_ops, reg, thrVars, opVars, implVars,
                   histVars>>

\* ------------------------------------------------------------- handlers

\* kqueue_op::operator() followed by the awaitable's await_resume, for the
\* op a thread popped.  `late`: the token is signalled after operator() has
\* released stop_cb and before await_resume reads it.  Running the handler
\* of an op whose impl was already destroyed reads freed memory: it either
\* faults or finds the bytes intact.
RunOp(o, fault, late) ==
    IF destroyed /\ fault
    THEN /\ crashed' = TRUE
         /\ UNCHANGED <<opVars, fd_open, svc_ref, destroyed, histVars>>
    ELSE /\ impl_ptr' = [impl_ptr EXCEPT ![o] = FALSE]
         /\ destroyed' = (destroyed \/ NoOwner(impl_ptr', svc_ref))
         /\ stop_cb' = IF destroyed' THEN [p \in Ops |-> FALSE]
                       ELSE [stop_cb EXCEPT ![o] = FALSE]
         /\ tok' = [tok EXCEPT
                ![o] = IF late /\ @ = "armed" THEN "fired" ELSE @]
         /\ res' = [res EXCEPT
                ![o] = await_resume(tok'[o] = "fired", HandlerEc(o), bytes[o])]
         /\ resumes' = [resumes EXCEPT ![o] = @ + 1]
         /\ inflight' = [inflight EXCEPT ![o] = FALSE]
         /\ UNCHANGED <<spc, registered, cancelled, errn, bytes,
                        empty_buffer_read, buffer_size, fd_open, svc_ref, crashed,
                        starts, posts, claimer, precancel, cancelseen>>

\* (*h)() for the item at the head of the queue: an op's operator() or
\* post_handler::operator(), which only resumes its coroutine.
Execute(item, fault, late) ==
    IF item \in Ops THEN RunOp(item, fault, late)
    ELSE /\ ~fault /\ ~late
         /\ UNCHANGED <<opVars, implVars, histVars>>

\* ------------------------------------------------------------- run / do_one

\* The timeout run() passes to do_one().
RunTimeout == -1

InRun(t) == tpc[t] # "out"

\* kqueue_scheduler::run up to its first do_one(): with no outstanding
\* work it calls stop() and returns 0.  (With stopped_ set it returns 0 and
\* changes nothing.)
run(t) ==
    /\ ~crashed
    /\ tpc[t] = "out"
    /\ ~stopped
    /\ IF outstanding_work = 0
       THEN /\ stopped' = TRUE
            /\ wakeup_pending' = TRUE
            /\ tpc' = tpc
            /\ ret' = [ret EXCEPT ![t] = "idle"]
       ELSE /\ tpc' = [tpc EXCEPT ![t] = "top"]
            /\ ret' = [ret EXCEPT ![t] = "none"]
            /\ UNCHANGED <<stopped, wakeup_pending>>
    /\ UNCHANGED <<auxVars, regVars, backend, outstanding_work, completed_ops, user_work, reg,
                   tev, opVars, implVars, histVars>>

\* do_one, head of the loop: return 0 if stopped_; else pop under the mutex
\* and run the handler inside a work_guard; else go on to the work check.
do_one_top(t, fault, late) ==
    /\ ~crashed
    /\ tpc[t] = "top"
    /\ IF stopped
       THEN /\ ~fault /\ ~late
            /\ tpc' = [tpc EXCEPT ![t] = "out"]
            /\ ret' = [ret EXCEPT ![t] = "stopped"]
            /\ UNCHANGED <<completed_ops, opVars, implVars, histVars>>
       ELSE IF completed_ops # <<>>
       THEN /\ completed_ops' = Tail(completed_ops)
            /\ Execute(Head(completed_ops), fault, late)
            /\ tpc' = [tpc EXCEPT ![t] = "guard"]
            /\ ret' = ret
       ELSE /\ ~fault /\ ~late
            /\ tpc' = [tpc EXCEPT ![t] = "chk"]
            /\ ret' = ret
            /\ UNCHANGED <<completed_ops, opVars, implVars, histVars>>
    /\ UNCHANGED <<auxVars, regVars, backend, outstanding_work, stopped, wakeup_pending,
                   user_work, reg, tev>>

\* A work_guard whose destructor does not call work_finished().
work_guard_leaky(t) ==
    /\ ~crashed
    /\ tpc[t] = "guard"
    /\ tpc' = [tpc EXCEPT ![t] = "top"]
    /\ UNCHANGED <<auxVars, regVars, backend, schedVars, tev, ret, opVars, implVars, histVars>>

\* ~work_guard: work_finished() is a bare fetch_sub.  do_one returns 1 and
\* run() calls it again.
work_guard(t) ==
    /\ ~crashed
    /\ tpc[t] = "guard"
    /\ outstanding_work' = outstanding_work - 1
    /\ tpc' = [tpc EXCEPT ![t] = "top"]
    /\ UNCHANGED <<auxVars, regVars, backend, stopped, completed_ops, wakeup_pending, user_work,
                   reg, tev, ret, opVars, implVars, histVars>>

\* A do_one that returns 0 from an empty queue without reading the counter.
do_one_work_unchecked(t) ==
    /\ ~crashed
    /\ tpc[t] = "chk"
    /\ tpc' = [tpc EXCEPT ![t] = "out"]
    /\ ret' = [ret EXCEPT ![t] = "nowork"]
    /\ UNCHANGED <<auxVars, regVars, backend, schedVars, tev, opVars, implVars, histVars>>

\* do_one: `if (outstanding_work_.load() == 0) return 0;` and otherwise on
\* to kevent().
do_one_work(t) ==
    /\ ~crashed
    /\ tpc[t] = "chk"
    /\ tpc' = [tpc EXCEPT ![t] = IF outstanding_work = 0 THEN "out"
                                 ELSE "wait"]
    /\ ret' = [ret EXCEPT ![t] = IF outstanding_work = 0 THEN "nowork"
                                 ELSE @]
    /\ UNCHANGED <<auxVars, regVars, backend, schedVars, tev, opVars, implVars, histVars>>

\* Where do_one goes when it has no (more) events to process.
AfterEvents(E) == IF E = {} THEN "pop2" ELSE "events"

\* A kevent() whose registrations are not EV_ONESHOT: a retrieved
\* registration stays in the kernel.
kevent_persistent(t, E) ==
    /\ ~crashed
    /\ tpc[t] = "wait"
    /\ E \subseteq reg
    /\ E # {} \/ wakeup_pending
    /\ wakeup_pending' = FALSE
    /\ tev' = [tev EXCEPT ![t] = E]
    /\ tpc' = [tpc EXCEPT ![t] = AfterEvents(E)]
    /\ UNCHANGED <<auxVars, regVars, backend, outstanding_work, stopped, completed_ops,
                   user_work, reg, ret, opVars, implVars, histVars>>

\* ::kevent() returns: the thread blocks until the EVFILT_USER event is
\* triggered or a registered fd is ready.  It retrieves the user event if
\* triggered (EV_CLEAR resets it) and the ready registrations, which
\* EV_ONESHOT deletes.
kevent(t, E) ==
    /\ ~crashed
    /\ tpc[t] = "wait"
    /\ E \subseteq reg
    /\ E # {} \/ wakeup_pending
    /\ reg' = reg \ E
    /\ wakeup_pending' = FALSE
    /\ tev' = [tev EXCEPT ![t] = E]
    /\ tpc' = [tpc EXCEPT ![t] = AfterEvents(E)]
    /\ UNCHANGED <<auxVars, regVars, backend, outstanding_work, stopped, completed_ops,
                   user_work, ret, opVars, implVars, histVars>>

\* ::kevent() fails with EINTR: `if (timeout_us < 0) continue; return 0;`
kevent_eintr(t) ==
    /\ ~crashed
    /\ tpc[t] = "wait"
    /\ tpc' = [tpc EXCEPT ![t] = IF RunTimeout < 0 THEN "top" ELSE "out"]
    /\ ret' = [ret EXCEPT ![t] = IF RunTimeout < 0 THEN @ ELSE "timeout"]
    /\ UNCHANGED <<auxVars, regVars, backend, schedVars, tev, opVars, implVars, histVars>>

\* What perform_io (or the EV_ERROR branch) can record for a claimed op.
IoOutcomes ==
    {[k |-> "n", n |-> i] : i \in 0 .. MaxBytes} \cup {[k |-> "err", n |-> 0]}

\* Whether the reactor leaves the op it claims holding the impl: kqueue's
\* do_one pushes the op as it is; the select reactor installs the
\* keep-alive as on every other claiming path.
ReactorKeepAlive(o) == impl_ptr[o] \/ backend = "select"

\* do_one, one iteration of the event loop: exchange `registered`, and if
\* that claimed the op, perform_io()/complete() and push it (no wakeup, no
\* work count change).  The event of an op whose impl is gone carries a
\* dangling udata: the exchange faults or finds the bytes intact.
\* The select reactor claims from registering as well as from registered.
process_event(t, o, out, fault) ==
    /\ ~crashed
    /\ tpc[t] = "events"
    /\ o \in tev[t]
    /\ out.n <= buffer_size[o]
    /\ IF destroyed /\ fault
       THEN /\ crashed' = TRUE
            /\ UNCHANGED <<tpc, tev, registered, errn, bytes, impl_ptr,
                           completed_ops, posts, claimer, precancel>>
       ELSE /\ tev' = [tev EXCEPT ![t] = @ \ {o}]
            /\ tpc' = [tpc EXCEPT ![t] = AfterEvents(tev'[t])]
            /\ crashed' = crashed
            /\ IF registered[o] # U
               THEN /\ registered' = [registered EXCEPT ![o] = U]
                    /\ errn' = [errn EXCEPT
                           ![o] = IF out.k = "err" THEN 1 ELSE 0]
                    /\ bytes' = [bytes EXCEPT ![o] = out.n]
                    /\ impl_ptr' = [impl_ptr EXCEPT ![o] = ReactorKeepAlive(o)]
                    /\ completed_ops' = Append(completed_ops, o)
                    /\ posts' = [posts EXCEPT ![o] = @ + 1]
                    /\ claimer' = [claimer EXCEPT ![o] = "reactor"]
                    /\ precancel' = [precancel EXCEPT
                           ![o] = cancelled[o] \/ tok[o] = "fired"]
               ELSE UNCHANGED <<registered, errn, bytes, impl_ptr,
                                completed_ops, posts, claimer, precancel>>
    /\ UNCHANGED <<auxVars, regVars, backend, outstanding_work, stopped, wakeup_pending,
                   user_work, reg, spc, inflight, cancelled,
                   empty_buffer_read, buffer_size, stop_cb, tok, res, fd_open, svc_ref,
                   destroyed, ret, starts, resumes, cancelseen>>

\* A do_one that does not test stopped_ again after the reactor woke.
do_one_after_unchecked(t, fault, late) ==
    /\ ~crashed
    /\ tpc[t] = "pop2"
    /\ IF completed_ops # <<>>
       THEN /\ completed_ops' = Tail(completed_ops)
            /\ Execute(Head(completed_ops), fault, late)
            /\ tpc' = [tpc EXCEPT ![t] = "guard"]
            /\ ret' = ret
       ELSE /\ ~fault /\ ~late
            /\ tpc' = [tpc EXCEPT ![t] = IF RunTimeout >= 0 THEN "out"
                                         ELSE "top"]
            /\ ret' = [ret EXCEPT ![t] = IF RunTimeout >= 0 THEN "timeout"
                                         ELSE @]
            /\ UNCHANGED <<completed_ops, opVars, implVars, histVars>>
    /\ UNCHANGED <<auxVars, regVars, backend, outstanding_work, stopped, wakeup_pending,
                   user_work, reg, tev>>

\* do_one after the event loop: return 0 if stopped_; else pop and run; else
\* return 0 for a bounded wait, loop for run()'s unbounded one.
do_one_after(t, fault, late) ==
    /\ ~crashed
    /\ tpc[t] = "pop2"
    /\ IF stopped
       THEN /\ ~fault /\ ~late
            /\ tpc' = [tpc EXCEPT ![t] = "out"]
            /\ ret' = [ret EXCEPT ![t] = "stopped"]
            /\ UNCHANGED <<completed_ops, opVars, implVars, histVars>>
       ELSE IF completed_ops # <<>>
       THEN /\ completed_ops' = Tail(completed_ops)
            /\ Execute(Head(completed_ops), fault, late)
            /\ tpc' = [tpc EXCEPT ![t] = "guard"]
            /\ ret' = ret
       ELSE /\ ~fault /\ ~late
            /\ tpc' = [tpc EXCEPT ![t] = IF RunTimeout >= 0 THEN "out"
                                         ELSE "top"]
            /\ ret' = [ret EXCEPT ![t] = IF RunTimeout >= 0 THEN "timeout"
                                         ELSE @]
            /\ UNCHANGED <<completed_ops, opVars, implVars, histVars>>
    /\ UNCHANGED <<auxVars, regVars, backend, outstanding_work, stopped, wakeup_pending,
                   user_work, reg, tev>>

\* ------------------------------------------------------------- specification

\* One socket in use on a context whose run() is called by IoThreads.
Next ==
    \/ \E o \in Ops, tk \in {"none", "armed", "fired"}, out \in SysOutcomes :
           StartOp(o, tk, out)
    \/ \E o \in Ops : register_fd(o)
    \/ \E o \in Ops : StartCas(o)
    \/ \E o \in Ops : StartCheckCancelled(o)
    \/ \E o \in Ops : canceller(o)
    \/ cancel
    \/ close
    \/ stop
    \/ \E t \in IoThreads : run(t)
    \/ \E t \in IoThreads, fault \in BOOLEAN, late \in BOOLEAN :
           do_one_top(t, fault, late)
    \/ \E t \in IoThreads : work_guard(t)
    \/ \E t \in IoThreads : do_one_work(t)
    \/ \E t \in IoThreads, E \in SUBSET Ops : kevent(t, E)
    \/ \E t \in IoThreads : kevent_eintr(t)
    \/ \E t \in IoThreads, fault \in BOOLEAN, late \in BOOLEAN :
           do_one_after(t, fault, late)
    \/ \E t \in IoThreads, o \in Ops, out \in IoOutcomes, fault \in BOOLEAN :
           process_event(t, o, out, fault)

Spec == Init /\ [][Next]_vars

\* The scheduler alone: posted coroutines and work guards, no socket.
SchedInit == Init /\ backend = "kqueue"

SchedNext ==
    \/ stop
    \/ restart
    \/ post
    \/ on_work_started
    \/ on_work_finished
    \/ \E t \in Threads : run(t)
    \/ \E t \in Threads : do_one_top(t, FALSE, FALSE)
    \/ \E t \in Threads : work_guard(t)
    \/ \E t \in Threads : do_one_work(t)
    \/ \E t \in Threads : kevent(t, {})
    \/ \E t \in Threads : kevent_eintr(t)
    \/ \E t \in Threads : do_one_after(t, FALSE, FALSE)

SchedSpec == SchedInit /\ [][SchedNext]_vars

\* A thread inside run() keeps executing: every step of do_one but the
\* EINTR return of kevent() is taken when it stays possible.
RunStep(t) ==
    \/ do_one_top(t, FALSE, FALSE)
    \/ work_guard(t)
    \/ do_one_work(t)
    \/ kevent(t, {})
    \/ do_one_after(t, FALSE, FALSE)

FairSchedSpec == SchedSpec /\ \A t \in Threads : WF_vars(RunStep(t))

\* ------------------------------------------------------------- service registry

\* The innermost registry call a thread is inside, and the calls around it.
Top(t) == stack[t][Len(stack[t])]
Below(t) == SubSeq(stack[t], 1, Len(stack[t]) - 1)

\* service_provider::find_impl: walk from head_ along next_ to the first
\* service whose t0_ or t1_ equals ti; 0 is nullptr.
RECURSIVE FindFrom(_, _)
FindFrom(h, ti) ==
    IF h = <<>> THEN 0
    ELSE IF t0_[Head(h)] = ti \/ t1_[Head(h)] = ti THEN Head(h)
    ELSE FindFrom(Tail(h), ti)

find_impl(ti) == FindFrom(head_, ti)

\* A use_service that keeps the mutex locked while it constructs.
held_across_construct(t) == t

\* `lock.unlock()` before `new T(*this)` in use_service, and the end of the
\* lock_guard's block in make_service: the owner of mutex_ afterwards.
unlock_before_construct(t) == 0

\* An insertion at the tail of the list.
link_tail(h, p) == Append(h, p)

\* `p->next_ = head_; head_ = p;`
link(h, p) == <<p>> \o h

\* A make_service that never finds a conflict after construction.
make_conflict_skipped(T) == FALSE

\* make_service's checks under the lock: find_impl(typeid(T)) and, where T
\* has a key_type, find_impl(typeid(key_type)).
make_conflict(T) == find_impl(T) # 0 \/ find_impl(key_type(T)) # 0

\* A make_service that links the new service before it checks.
make_insert_first(h, p, c) == link(h, p)

\* make_service after construction: throw on a conflict, else link p.
make_insert(h, p, c) == IF c THEN h ELSE link(h, p)

\* The next service object `new T` yields.
NewInst == CHOOSE i \in Insts : life[i] = "free" /\ \A j \in 1 .. i - 1 : life[j] # "free"

\* Service objects constructed so far plus the calls that will construct
\* one; a creating call starts only while this stays within MaxInst.
Pending(t) == Len(SelectSeq(stack[t], LAMBDA f : f.op # "find" /\ f.p = 0))

RECURSIVE SumPending(_)
SumPending(S) ==
    IF S = {} THEN 0
    ELSE LET t == CHOOSE x \in S : TRUE IN Pending(t) + SumPending(S \ {t})

Reserved == Cardinality({i \in Insts : life[i] # "free"}) + SumPending(RegThreads)

CanStart(op) == op = "find" \/ Reserved < MaxInst

\* A call: its template argument, its position, the object it constructed
\* (p) and how the call nested in its constructor ended (nr).
Frame(op, T) == [op |-> op, T |-> T, pc |-> "lock1", p |-> 0, nr |-> "none"]

\* The stack after the innermost call moved to pc / returned.
AtPc(t, pc) == [stack EXCEPT ![t][Len(stack[t])].pc = pc]

\* The stack after the innermost call returned normally ("ok") or by
\* exception ("exc"): the constructor that made the call sees how it ended.
Return(t, r) ==
    [stack EXCEPT ![t] =
        IF Len(stack[t]) = 1 THEN <<>>
        ELSE [Below(t) EXCEPT ![Len(stack[t]) - 1].nr = r]]

\* A thread outside the registry calls find_service<T>, use_service<T> or
\* make_service<T>.
call(t, op, T) ==
    /\ dtor = "none"
    /\ stack[t] = <<>>
    /\ CanStart(op)
    /\ stack' = [stack EXCEPT ![t] = <<Frame(op, T)>>]
    /\ UNCHANGED <<auxVars, ioVars, head_, t0_, t1_, life, mutex_, raced, dtor, dtor_p,
                   shut, order>>

\* std::lock_guard / unique_lock construction and lock.lock(): blocks while
\* another call owns mutex_ (and for ever if this thread owns it).
lock(t) ==
    /\ stack[t] # <<>>
    /\ Top(t).pc \in {"lock1", "lock2"}
    /\ mutex_ = 0
    /\ mutex_' = t
    /\ stack' = AtPc(t, IF Top(t).pc = "lock1" THEN "crit1" ELSE "crit2")
    /\ UNCHANGED <<auxVars, ioVars, head_, t0_, t1_, life, raced, dtor, dtor_p, shut,
                   order>>

\* find_service under the lock.
find_service(t) ==
    /\ stack[t] # <<>>
    /\ Top(t).op = "find" /\ Top(t).pc = "crit1" /\ mutex_ = t
    /\ stack' = Return(t, "ok")
    /\ mutex_' = 0
    /\ UNCHANGED <<auxVars, ioVars, head_, t0_, t1_, life, raced, dtor, dtor_p, shut,
                   order>>

\* use_service, first lookup: return the service found, else unlock and go
\* on to construct.
use_service(t) ==
    /\ stack[t] # <<>>
    /\ Top(t).op = "use" /\ Top(t).pc = "crit1" /\ mutex_ = t
    /\ IF find_impl(Top(t).T) # 0
       THEN /\ stack' = Return(t, "ok")
            /\ mutex_' = 0
       ELSE /\ stack' = AtPc(t, "ctor")
            /\ mutex_' = unlock_before_construct(t)
    /\ UNCHANGED <<auxVars, ioVars, head_, t0_, t1_, life, raced, dtor, dtor_p, shut,
                   order>>

\* make_service, the checks before construction: throw if T or its
\* key_type is present, else leave the block and go on to construct.
make_service(t) ==
    /\ stack[t] # <<>>
    /\ Top(t).op = "make" /\ Top(t).pc = "crit1" /\ mutex_ = t
    /\ IF make_conflict(Top(t).T)
       THEN /\ stack' = Return(t, "exc")
            /\ mutex_' = 0
       ELSE /\ stack' = AtPc(t, "ctor")
            /\ mutex_' = unlock_before_construct(t)
    /\ UNCHANGED <<auxVars, ioVars, head_, t0_, t1_, life, raced, dtor, dtor_p, shut,
                   order>>

\* What a service constructor does with the registry: nothing, or one
\* nested find_service / use_service / make_service call.
NestChoices == {<<"none", Void>>} \cup (RegOps \X Types)

\* use_service's `sp.p->t0_ = typeid(T)` and t1_ assignment, made once the
\* constructor has returned; make_service assigns under the second lock.
Typed(f, t, p, ti) == IF Top(t).op = "use" THEN [f EXCEPT ![p] = ti] ELSE f

\* `new T(*this)` with the mutex released: the object is allocated and its
\* constructor either returns or first calls into the registry.
construct(t, n) ==
    /\ stack[t] # <<>>
    /\ Top(t).pc = "ctor"
    /\ LET p == NewInst IN
       /\ life' = [life EXCEPT ![p] = "new"]
       /\ IF n[1] = "none"
          THEN /\ stack' = [stack EXCEPT ![t][Len(stack[t])] =
                                [@ EXCEPT !.pc = "lock2", !.p = p]]
               /\ t0_' = Typed(t0_, t, p, Top(t).T)
               /\ t1_' = Typed(t1_, t, p, key_type(Top(t).T))
          ELSE /\ Len(stack[t]) < MaxDepth
               /\ CanStart(n[1])
               /\ stack' = [stack EXCEPT ![t] =
                                Append(Below(t),
                                       [Top(t) EXCEPT !.pc = "nest", !.p = p])
                                    \o <<Frame(n[1], n[2])>>]
               /\ UNCHANGED <<t0_, t1_>>
    /\ UNCHANGED <<auxVars, ioVars, head_, mutex_, raced, dtor, dtor_p, shut, order>>

\* The nested call has returned into the constructor.  An exception thrown
\* by a nested make_service leaves the constructor unless it catches it:
\* the half-built object is freed and the exception leaves this call too.
constructed(t, caught) ==
    /\ stack[t] # <<>>
    /\ Top(t).pc = "nest"
    /\ caught => Top(t).nr = "exc"
    /\ IF Top(t).nr = "exc" /\ ~caught
       THEN /\ life' = [life EXCEPT ![Top(t).p] = "dead"]
            /\ stack' = Return(t, "exc")
            /\ mutex_' = IF mutex_ = t THEN 0 ELSE mutex_
            /\ UNCHANGED <<t0_, t1_>>
       ELSE /\ stack' = AtPc(t, "lock2")
            /\ t0_' = Typed(t0_, t, Top(t).p, Top(t).T)
            /\ t1_' = Typed(t1_, t, Top(t).p, key_type(Top(t).T))
            /\ UNCHANGED <<life, mutex_>>
    /\ UNCHANGED <<auxVars, ioVars, head_, raced, dtor, dtor_p, shut, order>>

\* use_service, second lookup under the lock: if another call registered
\* the type meanwhile return that service and let `ptr` delete ours, else
\* link ours at the head.
use_service_insert(t) ==
    /\ stack[t] # <<>>
    /\ Top(t).op = "use" /\ Top(t).pc = "crit2" /\ mutex_ = t
    /\ IF find_impl(Top(t).T) # 0
       THEN /\ raced' = raced \cup {<<Top(t).T, find_impl(Top(t).T)>>}
            /\ life' = [life EXCEPT ![Top(t).p] = "dead"]
            /\ UNCHANGED <<head_, order>>
       ELSE /\ raced' = raced \cup {<<Top(t).T, Top(t).p>>}
            /\ life' = [life EXCEPT ![Top(t).p] = "reg"]
            /\ head_' = link(head_, Top(t).p)
            /\ order' = Append(order, Top(t).p)
    /\ stack' = Return(t, "ok")
    /\ mutex_' = 0
    /\ UNCHANGED <<auxVars, ioVars, t0_, t1_, dtor, dtor_p, shut>>

\* make_service after construction, under the lock: throw if T or its
\* key_type is present by now (the new object is not deleted), else set
\* t0_ and t1_ and link it at the head.
make_service_insert(t) ==
    /\ stack[t] # <<>>
    /\ Top(t).op = "make" /\ Top(t).pc = "crit2" /\ mutex_ = t
    /\ LET c == make_conflict(Top(t).T)
           p == Top(t).p
       IN /\ head_' = make_insert(head_, p, c)
          /\ IF c
             THEN /\ stack' = Return(t, "exc")
                  /\ life' = [life EXCEPT ![p] = "leak"]
                  /\ t0_' = IF find_impl(Top(t).T) # 0 THEN t0_
                            ELSE [t0_ EXCEPT ![p] = Top(t).T]
                  /\ UNCHANGED <<t1_, order>>
             ELSE /\ stack' = Return(t, "ok")
                  /\ life' = [life EXCEPT ![p] = "reg"]
                  /\ t0_' = [t0_ EXCEPT ![p] = Top(t).T]
                  /\ t1_' = [t1_ EXCEPT ![p] = key_type(Top(t).T)]
                  /\ order' = Append(order, p)
    /\ mutex_' = 0
    /\ UNCHANGED <<auxVars, ioVars, raced, dtor, dtor_p, shut>>

\* ~service_provider starts, with no registry call in progress:
\* `service* p = head_`.
dtor_begin ==
    /\ dtor = "none"
    /\ \A t \in RegThreads : stack[t] = <<>>
    /\ dtor' = IF head_ = <<>> THEN "done" ELSE "shutdown"
    /\ dtor_p' = 1
    /\ UNCHANGED <<auxVars, ioVars, head_, t0_, t1_, life, mutex_, stack, raced, shut,
                   order>>

\* ~service_provider, loop body: `next = p->next_; p->shutdown();`
dtor_shutdown ==
    /\ dtor = "shutdown"
    /\ shut' = Append(shut, head_[dtor_p])
    /\ dtor' = "delete"
    /\ UNCHANGED <<auxVars, ioVars, head_, t0_, t1_, life, mutex_, stack, raced, dtor_p,
                   order>>

\* ~service_provider, loop body: `delete p; p = next;`
dtor_delete ==
    /\ dtor = "delete"
    /\ life' = [life EXCEPT ![head_[dtor_p]] = "dead"]
    /\ dtor_p' = dtor_p + 1
    /\ dtor' = IF dtor_p < Len(head_) THEN "shutdown" ELSE "done"
    /\ UNCHANGED <<auxVars, ioVars, head_, t0_, t1_, mutex_, stack, raced, shut, order>>

\* The registry of one context, used by RegThreads and then destroyed.
RegInit == Init /\ backend = "kqueue"

RegNext ==
    \/ \E t \in RegThreads, op \in RegOps, T \in Types : call(t, op, T)
    \/ \E t \in RegThreads : lock(t)
    \/ \E t \in RegThreads : find_service(t)
    \/ \E t \in RegThreads : use_service(t)
    \/ \E t \in RegThreads : make_service(t)
    \/ \E t \in RegThreads, n \in NestChoices : construct(t, n)
    \/ \E t \in RegThreads, caught \in BOOLEAN : constructed(t, caught)
    \/ \E t \in RegThreads : use_service_insert(t)
    \/ \E t \in RegThreads : make_service_insert(t)
    \/ dtor_begin
    \/ dtor_shutdown
    \/ dtor_delete

RegSpec == RegInit /\ [][RegNext]_vars

\* The steps of a thread inside a registry call, but for the lock.
RegStep(t) ==
    \/ find_service(t)
    \/ use_service(t)
    \/ make_service(t)
    \/ \E n \in NestChoices : construct(t, n)
    \/ \E caught \in BOOLEAN : constructed(t, caught)
    \/ use_service_insert(t)
    \/ make_service_insert(t)

\* The registry calls alone, over the types K and A, for the progress of
\* calls: a thread inside a registry call keeps running, and a thread
\* waiting for mutex_ gets it eventually if it keeps being released.
CallTypes == {"K", "A"}

CallNext ==
    \/ \E t \in RegThreads, op \in RegOps, T \in CallTypes : call(t, op, T)
    \/ \E t \in RegThreads : lock(t)
    \/ \E t \in RegThreads : find_service(t)
    \/ \E t \in RegThreads : use_service(t)
    \/ \E t \in RegThreads : make_service(t)
    \/ \E t \in RegThreads, n \in NestChoices :
           n[2] \in CallTypes \cup {Void} /\ construct(t, n)
    \/ \E t \in RegThreads, caught \in BOOLEAN : constructed(t, caught)
    \/ \E t \in RegThreads : use_service_insert(t)
    \/ \E t \in RegThreads : make_service_insert(t)

FairRegSpec ==
    /\ RegInit /\ [][CallNext]_vars
    /\ \A t \in RegThreads : WF_vars(RegStep(t)) /\ SF_vars(lock(t))

\* ------------------------------------------------------------- claims

Canceled(ec) == ec \in {"canceled", "operation_canceled"}

QueueCount(o) == Len(SelectSeq(completed_ops, LAMBDA x : x = o))

\* The result operator() would deliver had no cancellation been requested.
RealResult(o) ==
    [ec |-> IF errn[o] # 0 THEN "err"
            ELSE IF is_read_operation(o) /\ bytes[o] = 0 THEN "eof"
            ELSE "ok",
     n |-> bytes[o]]

C2_StopResumesCanceled ==
    \A o \in Ops :
        resumes[o] = 1 /\ tok[o] = "fired" => Canceled(res[o].ec)

\* C2 witness: the reactor claimed the op with no cancellation requested,
\* the token was signalled afterwards, and the coroutine has resumed.
C2_Witness ==
    \E o \in Ops :
        /\ resumes[o] = 1 /\ tok[o] = "fired"
        /\ claimer[o] = "reactor" /\ ~precancel[o]

\* C3: once the stop token of a started op has fired and the start path has
\* finished, the cancellation path has claimed and posted the op (it is
\* queued or resumed, whatever the descriptor does).
C3_StopClaimsAndPosts ==
    \A o \in Ops :
        inflight[o] /\ tok[o] = "fired" /\ spc[o] = "none" => posts[o] = 1

\* C3 witness of the failure: the token has fired and the op still waits
\* for its descriptor, unclaimed, with nothing queued.
C3_Stuck ==
    \E o \in Ops :
        /\ inflight[o] /\ tok[o] = "fired" /\ spc[o] = "none"
        /\ registered[o] = R /\ posts[o] = 0 /\ cancelled[o]

C5_QueuedOpKeepsImpl ==
    \A o \in Ops : InQueue(o) => impl_ptr[o] /\ ~destroyed

\* C5 witness of the failure: the impl is destroyed while one of its ops
\* is still queued.
C5_Dangling == \E o \in Ops : InQueue(o) /\ destroyed

C10_ResultMatchesWinner ==
    \A o \in Ops :
        resumes[o] = 1 =>
            /\ claimer[o] \in {"cancel", "close", "stop", "start"} =>
                   Canceled(res[o].ec) /\ res[o].n = 0
            /\ claimer[o] \in {"imm", "reactor"} /\ ~precancel[o] =>
                   res[o] = RealResult(o)

\* C10 witness of the failure: the reactor completed the read with a byte
\* transferred before any cancellation request, and the coroutine observed
\* canceled.
C10_LostResult ==
    \E o \in Ops :
        /\ resumes[o] = 1 /\ claimer[o] = "reactor" /\ ~precancel[o]
        /\ bytes[o] > 0 /\ errn[o] = 0
        /\ Canceled(res[o].ec)

\* C6: every return from run() happens in a state where stopped_ is set or
\* outstanding_work_ is 0.
C6_RunReturnsOnlyIdleOrStopped ==
    [][\A t \in Threads :
          tpc[t] # "out" /\ tpc'[t] = "out" =>
              stopped \/ outstanding_work = 0]_vars

\* C6 witness: a thread's run() returned because the counter was zero
\* while the scheduler was not stopped and another thread is still inside.
C6_Witness ==
    \E t, u \in Threads :
        ret[t] = "nowork" /\ tpc[t] = "out" /\ ~stopped /\ InRun(u)

\* C7: whenever outstanding_work_ is zero, every thread inside run()
\* eventually returns, unless new work arrives first.  (The stopped
\* scheduler is left to C8.)
C7_ZeroWorkReturns ==
    \A t \in Threads :
        (InRun(t) /\ outstanding_work = 0 /\ ~stopped)
            ~> (~InRun(t) \/ outstanding_work > 0 \/ stopped)

\* C7 witness of the failure: the counter is zero, nothing is queued, no
\* wakeup is pending and a thread is blocked in kevent().
C7_Blocked ==
    \E t \in Threads :
        /\ tpc[t] = "wait" /\ outstanding_work = 0 /\ ~stopped
        /\ ~wakeup_pending /\ completed_ops = <<>>

\* C8: after stop(), every thread inside run() eventually returns.
C8_StopReturnsAll ==
    \A t \in Threads : (InRun(t) /\ stopped) ~> ~InRun(t)

\* C8 witness of the failure: the scheduler is stopped, one thread has
\* returned with the wakeup and another is still blocked in kevent().
C8_Blocked ==
    \E t, u \in Threads :
        /\ stopped /\ ~wakeup_pending
        /\ ret[t] = "stopped" /\ tpc[t] = "out"
        /\ tpc[u] = "wait"

\* The ops registered with the reactor: work_started() was called for them
\* and no path has claimed them yet.
Registered == {o \in Ops : registered[o] # U}

\* The handlers that have run inside a work_guard still in scope.
Guarded == {t \in Threads : tpc[t] = "guard"}

\* C11: outstanding_work_ is exactly the external work plus one per queued
\* item, one per op registered with the reactor and one per handler whose
\* work_guard is still in scope: a registered op contributes exactly 1 and
\* an op whose handler has run and returned contributes 0, whichever path
\* (immediate, reactor, cancel()/close(), stop token, start-path
\* cancellation) completed it.
C11_WorkNetZero ==
    outstanding_work =
        user_work + Len(completed_ops) + Cardinality(Registered)
            + Cardinality(Guarded)

\* C11 witness: one op was completed by the start-path cancellation check
\* and one by its stop token, both handlers have run and returned, and the
\* counter is back at zero.
C11_Witness ==
    /\ \E o \in Ops : claimer[o] = "start" /\ resumes[o] = 1
    /\ \E o \in Ops : claimer[o] = "stop" /\ resumes[o] = 1
    /\ Guarded = {} /\ outstanding_work = 0

\* C12: stopped_ changes only in a step that is the stop() call itself or
\* the restart() call; run() and the work counter leave it alone.
C12_StoppedOnlyByStop == [][stopped' # stopped => stop \/ restart]_vars

\* C12 witness of the failure: a run() that found no outstanding work has
\* returned and left the scheduler stopped, with no stop() call involved.
C12_StoppedByRun ==
    \E t \in Threads : ret[t] = "idle" /\ tpc[t] = "out" /\ stopped

\* A thread inside run() takes an item off the completion queue and
\* executes it.
ExecutesItem ==
    \E t \in Threads :
        /\ do_one_top(t, FALSE, FALSE) \/ do_one_after(t, FALSE, FALSE)
        /\ Len(completed_ops') < Len(completed_ops)

Linked == {head_[k] : k \in 1 .. Len(head_)}

Answering(ti) == {i \in Linked : t0_[i] = ti \/ t1_[i] = ti}

\* A service answering to T's concrete type or to T's key_type is present.
Present(T) == Answering(T) \cup Answering(key_type(T)) # {}

\* C14: at any time at most one registered service answers to any given
\* type index, a service answering to its t0_ and to its t1_.
C14_AtMostOnePerIndex == \A ti \in Types : Cardinality(Answering(ti)) <= 1

\* C14 witness of the failure: two registered services answer to one index.
C14_TwoAnswer == \E ti \in Types : Cardinality(Answering(ti)) >= 2

\* The innermost call of t is a make_service that leaves in this step from
\* one of its locked sections, and it leaves by throwing.
MakeReturns(t) ==
    /\ stack[t] # <<>>
    /\ Top(t).op = "make" /\ Top(t).pc \in {"crit1", "crit2"}
    /\ Len(stack'[t]) < Len(stack[t])

MakeFails(t) ==
    /\ MakeReturns(t)
    /\ Top(t).p # 0 => life'[Top(t).p] # "reg"

\* C15: a make_service call leaves its locked sections by throwing exactly
\* when a service answering to T or to T's key_type is present at that
\* moment, before or after construction; otherwise it links its own object.
\* So of concurrent calls with an equal key only the first to link succeeds.
C15_MakeFailsIffPresent ==
    [][\A t \in RegThreads :
          MakeReturns(t) =>
              /\ MakeFails(t) <=> Present(Top(t).T)
              /\ ~MakeFails(t) => head_' = <<Top(t).p>> \o head_]_vars

\* C15 witness: a make_service<A> constructed its object and then failed,
\* because a service of its key_type K was registered meanwhile.
C15_Witness ==
    \E i, j \in Insts :
        /\ life[i] = "leak" /\ t0_[i] = "A"
        /\ life[j] = "reg" /\ t0_[j] = "K"

\* C16: a make_service call that fails leaves the list, and what
\* find_service returns for every type, as they were.
C16_FailedMakeChangesNothing ==
    [][\A t \in RegThreads :
          MakeFails(t) =>
              /\ head_' = head_
              /\ \A ti \in Types : find_impl(ti)' = find_impl(ti)]_vars

\* C16 witness: a make_service failed after construction on its own
\* concrete type, and the registry still holds the earlier service.
C16_Witness ==
    \E i \in Insts :
        /\ life[i] = "leak" /\ t0_[i] = Void
        /\ head_ # <<>>

\* C17: use_service calls that each constructed a T of their own (the
\* registry did not contain T when they looked) all return one service, at
\* most one service of concrete type T is registered, and every object
\* that is neither registered nor destroyed belongs to a call in progress.
C17_UseRaceOneInstance ==
    /\ \A x, y \in raced : x[1] = y[1] => x[2] = y[2]
    /\ \A T \in Types : Cardinality({i \in Linked : t0_[i] = T}) <= 1
    /\ \A i \in Insts :
           life[i] = "new" =>
               \E t \in RegThreads :
                   \E k \in 1 .. Len(stack[t]) : stack[t][k].p = i

\* C17 witness of the failure: two racing use_service<T> calls returned
\* different services.
C17_SplitResult == \E x, y \in raced : x[1] = y[1] /\ x[2] # y[2]

\* C18: no registered service is destroyed before shutdown() has been
\* called on every registered service.
C18_ShutdownBeforeDestroy ==
    \A i \in Linked :
        life[i] = "dead" =>
            \A j \in Linked : \E k \in 1 .. Len(shut) : shut[k] = j

\* C18 witness of the failure: a registered service is destroyed while
\* another has not been shut down.
C18_DestroyedEarly ==
    \E i, j \in Linked :
        /\ life[i] = "dead"
        /\ \A k \in 1 .. Len(shut) : shut[k] # j

\* C19: the k-th service shut down is the k-th most recently registered.
C19_ReverseOrder ==
    \A k \in 1 .. Len(shut) : shut[k] = order[Len(order) - k + 1]

\* C19 witness: the destructor has finished over at least two services.
C19_Witness == dtor = "done" /\ Len(shut) >= 2

\* C20: a thread does not own mutex_ while its innermost call runs a
\* constructor or is about to lock, and every registry call, the nested
\* ones included, returns.
C20_NestedCallsReturn ==
    /\ [](\A t \in RegThreads :
             stack[t] # <<>>
                 /\ Top(t).pc \in {"lock1", "ctor", "nest", "lock2"}
                 => mutex_ # t)
    /\ \A t \in RegThreads : (stack[t] # <<>>) ~> (stack[t] = <<>>)

\* C20 witness: a call nested in a constructor has returned and the outer
\* call is about to lock again.
C20_Witness ==
    \E t \in RegThreads :
        /\ Len(stack[t]) = 1
        /\ Top(t).pc = "nest" /\ Top(t).nr = "ok"


\* ------------------------------------------------------------- eof policy

\* C21: a read that has completed reports eof exactly when it was not
\* cancelled, the system call reported no error, no byte was transferred
\* and the caller's buffer sequence has a non-zero total size; a read that
\* was not cancelled into a sequence of total size zero reports (ok, 0).
C21_EofIffNonEmptyZeroRead ==
    [][resumes'["rd"] = resumes["rd"] + 1 =>
          LET notCancelled == ~cancelled["rd"] /\ tok'["rd"] # "fired"
          IN  /\ res'["rd"].ec = "eof" <=>
                     /\ notCancelled
                     /\ errn["rd"] = 0 /\ bytes["rd"] = 0
                     /\ buffer_size["rd"] > 0
              /\ buffer_size["rd"] = 0 /\ notCancelled /\ errn["rd"] = 0
                 => res'["rd"] = [ec |-> "ok", n |-> 0]]_vars

\* C21 case reached: a read into two buffers of size zero, for which readv
\* returned 0, has completed with eof.
C21_ZeroSizeEof ==
    /\ resumes["rd"] = 1 /\ buffer_size["rd"] = 0
    /\ ~empty_buffer_read["rd"]
    /\ res["rd"].ec = "eof"


\* ------------------------------------------------------------- coroutine tasks

\* sizeof(promise_allocator::header), in the unit frame sizes are counted in.
HeaderSize == 2

\* The size the compiler passes to operator new and operator delete for
\* the frame of coroutine i; frames of different coroutines differ.
FrameSize(i) == 3 + i

\* The chains async_run can be given: the depth, the I/O operations each
\* task awaits after its nested task has returned, whether a task is bound
\* by run_on, whether its arguments expose a frame allocator, the executor
\* of the root task and the context the I/O object belongs to.
Chains ==
    {c \in [depth : 1 .. MaxChain,
            ops : [1 .. MaxChain -> 0 .. MaxOps],
            bind : [1 .. MaxChain -> {"inherit"} \cup Execs],
            alloc : [1 .. MaxChain -> Allocs],
            root : Execs,
            io : Execs] :
        \A i \in 1 .. MaxChain :
            i > c.depth =>
                c.ops[i] = 0 /\ c.bind[i] = "inherit" /\ c.alloc[i] = "shared"}

\* An allocate_with that forgets the header.
allocate_with_bare(st, a, size) ==
    [st EXCEPT ![a].alloc_count = @ + 1, ![a].bytes_allocated = @ + size]

\* promise_allocator::allocate_with: one allocate(size + sizeof(header)) on
\* the chosen allocator.
allocate_with(st, a, size) ==
    [st EXCEPT ![a].alloc_count = @ + 1,
               ![a].bytes_allocated = @ + size + HeaderSize]

\* promise_allocator::operator delete: the header's dealloc on the header's
\* ctx, with size + sizeof(header).
operator_delete(st, a, size) ==
    [st EXCEPT ![a].dealloc_count = @ + 1,
               ![a].bytes_deallocated = @ + size + HeaderSize]

\* The dispatcher an op keeps when the stored one is the I/O context's.
op_d_of_context(d) == chain.io

\* read_some: `op.d = d`, the dispatcher the op keeps for its completion.
op_d_stored(d) == d

\* executor::dispatch(h) called on the thread of executor e: h itself when
\* ex owns that thread, otherwise the no-op handle (-1) after a post.
dispatch(ex, h, e) == IF ex = e THEN h ELSE -1

\* The pc of a suspended coroutine once it is resumed.
ResumedPc(pc) ==
    CASE pc = "init" -> "start"
      [] pc = "child" -> "postchild"
      [] pc = "io" -> "postio"
      [] OTHER -> pc

\* h.resume() on the thread of executor e, reached through dispatcher d.
Resume(h, d, e, pcv, q) ==
    /\ co_cur' = h
    /\ co_thread' = e
    /\ co_pc' = [pcv EXCEPT ![h] = ResumedPc(@)]
    /\ through' = [through EXCEPT ![h] = d]
    /\ resumed_on' = [resumed_on EXCEPT ![h] = e]
    /\ co_q' = q

\* d.dispatch(h).resume() on the thread of executor e: h runs now, or a
\* work item resuming it is in d's queue and the no-op handle is resumed.
Transfer(h, d, e, pcv, q) ==
    IF dispatch(d, h, e) = h
    THEN Resume(h, d, e, pcv, q)
    ELSE /\ co_cur' = -1
         /\ co_pc' = pcv
         /\ co_q' = [q EXCEPT ![d] = Append(@, [t |-> "tramp", h |-> h, d |-> d])]
         /\ UNCHANGED <<co_thread, through, resumed_on>>

\* A starter that resumes nothing.
starter_idle(e, q) ==
    /\ co_q' = q
    /\ UNCHANGED <<co_cur, co_thread, co_pc, through, resumed_on>>

\* root_task::starter::operator(): h_.resume().
starter(e, q) == Resume(0, e, e, co_pc, q)

\* async_run with the caller's task argument: the task's frame and the
\* wrapper's frame are allocated, the executor is moved into the root
\* promise and the embedded starter is posted to it.
async_run(c) ==
    /\ chain = NoChain
    /\ chain' = c
    /\ co_pc' = [i \in Levels |-> IF i <= 1 THEN "init" ELSE "none"]
    /\ co_left' = [i \in Levels |-> IF i = 0 THEN 0 ELSE c.ops[i]]
    /\ ex_' = [ex_ EXCEPT ![0] = c.root]
    /\ stats' = allocate_with(allocate_with(stats, c.alloc[1], FrameSize(1)),
                              "shared", FrameSize(0))
    /\ hdr_ctx' = [hdr_ctx EXCEPT ![1] = c.alloc[1], ![0] = "shared"]
    /\ co_q' = [co_q EXCEPT
           ![c.root] = Append(@, [t |-> "starter", h |-> 0, d |-> c.root])]
    /\ UNCHANGED <<caller_ex_, op_d, passed_d, through, resumed_on, co_cur,
                   co_thread, g_suspend_count, g_resume_count, executed>>
    /\ UNCHANGED <<ioVars, regVars, wqVars, sigVars, extVars>>

\* The thread of executor e takes the work item at the head of its queue
\* and runs it: the starter, an I/O op's completion handler
\* (saved_d.dispatch(saved_h).resume()), or a posted resumption.
run_item(e) ==
    /\ chain # NoChain /\ co_cur = -1
    /\ co_q[e] # <<>>
    /\ LET w == Head(co_q[e])
           q == [co_q EXCEPT ![e] = Tail(@)]
       IN  CASE w.t = "starter" -> starter(e, q)
             [] w.t = "op" -> Transfer(w.h, op_d[w.h], e, co_pc, q)
             [] OTHER -> Resume(w.h, w.d, e, co_pc, q)
    /\ executed' = executed + 1
    /\ UNCHANGED <<chain, co_left, ex_, caller_ex_, op_d, passed_d, stats,
                   hdr_ctx, g_suspend_count, g_resume_count>>
    /\ UNCHANGED <<ioVars, regVars, wqVars, sigVars, extVars>>

\* Coroutine i awaits its nested task: the task's coroutine function is
\* called (its frame allocated; the root's task already exists), the
\* promise's ex_ is passed as the dispatcher, the task takes it as its
\* caller's dispatcher and, unless run_on bound it, as its own; it starts
\* by symmetric transfer when both are equal and through its own executor
\* otherwise.
await_task(i) ==
    /\ co_cur = i /\ co_pc[i] = "start" /\ i < chain.depth
    /\ LET c == i + 1
           d == ex_[i]
           own == IF chain.bind[c] = "inherit" THEN d ELSE chain.bind[c]
           pcv == [co_pc EXCEPT ![i] = "child", ![c] = "init"]
       IN  /\ passed_d' = [passed_d EXCEPT ![i] = d]
           /\ caller_ex_' = [caller_ex_ EXCEPT ![c] = d]
           /\ ex_' = [ex_ EXCEPT ![c] = own]
           /\ IF i = 0
              THEN UNCHANGED <<stats, hdr_ctx>>
              ELSE /\ stats' = allocate_with(stats, chain.alloc[c], FrameSize(c))
                   /\ hdr_ctx' = [hdr_ctx EXCEPT ![c] = chain.alloc[c]]
           /\ IF own = d
              THEN Resume(c, own, co_thread, pcv, co_q)
              ELSE Transfer(c, own, co_thread, pcv, co_q)
    /\ UNCHANGED <<chain, co_left, op_d, g_suspend_count, g_resume_count,
                   executed>>
    /\ UNCHANGED <<ioVars, regVars, wqVars, sigVars, extVars>>

\* Task i was resumed by its nested task's final_suspend: the co_await
\* expression ends and the task object it awaited is destroyed with its
\* frame.
after_task(i) ==
    /\ co_cur = i /\ co_pc[i] = "postchild" /\ i >= 1
    /\ co_pc' = [co_pc EXCEPT ![i] = "ops", ![i + 1] = "gone"]
    /\ stats' = operator_delete(stats, hdr_ctx[i + 1], FrameSize(i + 1))
    /\ UNCHANGED <<chain, co_left, ex_, caller_ex_, op_d, passed_d, through,
                   resumed_on, co_q, co_cur, co_thread, hdr_ctx,
                   g_suspend_count, g_resume_count, executed>>
    /\ UNCHANGED <<ioVars, regVars, wqVars, sigVars, extVars>>

\* Task i can go on with its own body.
Ready(i) ==
    /\ co_cur = i /\ i >= 1
    /\ co_pc[i] = "ops" \/ (co_pc[i] = "start" /\ i = chain.depth)

\* Task i awaits an I/O operation: await_suspend(h, ex_) hands the handle
\* and the dispatcher to the op, which is completed by the I/O object's
\* context; the no-op handle is resumed.
await_io(i) ==
    /\ Ready(i) /\ co_left[i] > 0
    /\ co_left' = [co_left EXCEPT ![i] = @ - 1]
    /\ g_suspend_count' = g_suspend_count + 1
    /\ passed_d' = [passed_d EXCEPT ![i] = ex_[i]]
    /\ op_d' = [op_d EXCEPT ![i] = op_d_stored(ex_[i])]
    /\ co_pc' = [co_pc EXCEPT ![i] = "io"]
    /\ co_q' = [co_q EXCEPT
           ![chain.io] = Append(@, [t |-> "op", h |-> i, d |-> ex_[i]])]
    /\ co_cur' = -1
    /\ UNCHANGED <<chain, ex_, caller_ex_, through, resumed_on, co_thread,
                   stats, hdr_ctx, g_resume_count, executed>>
    /\ UNCHANGED <<ioVars, regVars, wqVars, sigVars, extVars>>

\* Task i resumed from an I/O operation: await_resume.
io_resumed(i) ==
    /\ co_cur = i /\ co_pc[i] = "postio"
    /\ g_resume_count' = g_resume_count + 1
    /\ co_pc' = [co_pc EXCEPT ![i] = "ops"]
    /\ UNCHANGED <<chain, co_left, ex_, caller_ex_, op_d, passed_d, through,
                   resumed_on, co_q, co_cur, co_thread, stats, hdr_ctx,
                   g_suspend_count, executed>>
    /\ UNCHANGED <<ioVars, regVars, wqVars, sigVars, extVars>>

\* Task i finishes: final_suspend hands control to the coroutine awaiting
\* it, by symmetric transfer when caller_ex_ == ex_ and through the
\* caller's dispatcher otherwise.
final_suspend(i) ==
    /\ Ready(i) /\ co_left[i] = 0
    /\ LET pcv == [co_pc EXCEPT ![i] = "final"]
       IN  IF caller_ex_[i] = ex_[i]
           THEN Resume(i - 1, caller_ex_[i], co_thread, pcv, co_q)
           ELSE Transfer(i - 1, caller_ex_[i], co_thread, pcv, co_q)
    /\ UNCHANGED <<chain, co_left, ex_, caller_ex_, op_d, passed_d, stats,
                   hdr_ctx, g_suspend_count, g_resume_count, executed>>
    /\ UNCHANGED <<ioVars, regVars, wqVars, sigVars, extVars>>

\* The root task resumed from the task it wraps: return_void, and
\* final_suspend's awaiter destroys the coroutine; the frame's parameter,
\* the task, goes with it.
root_final ==
    /\ co_cur = 0 /\ co_pc[0] = "postchild"
    /\ co_pc' = [co_pc EXCEPT ![0] = "gone", ![1] = "gone"]
    /\ stats' = operator_delete(
                    operator_delete(stats, hdr_ctx[1], FrameSize(1)),
                    hdr_ctx[0], FrameSize(0))
    /\ co_cur' = -1
    /\ UNCHANGED <<chain, co_left, ex_, caller_ex_, op_d, passed_d, through,
                   resumed_on, co_q, co_thread, hdr_ctx, g_suspend_count,
                   g_resume_count, executed>>
    /\ UNCHANGED <<ioVars, regVars, wqVars, sigVars, extVars>>

CoInit0 == Init /\ backend = "kqueue"

Launched == chain # NoChain

\* What the executors' threads and the running coroutine do.
CoRun ==
    \/ \E e \in Execs : run_item(e)
    \/ \E i \in Levels : await_task(i)
    \/ \E i \in Levels : after_task(i)
    \/ \E i \in Levels : await_io(i)
    \/ \E i \in Levels : io_resumed(i)
    \/ \E i \in Levels : final_suspend(i)
    \/ root_final

CoNext ==
    \/ ~Launched /\ \E c \in Chains : async_run(c)
    \/ CoRun

CoSpec == CoInit0 /\ [][CoNext]_vars

\* The executors' threads keep running their queues.
FairCoSpec == CoSpec /\ WF_vars(CoRun)

Drained == Launched /\ co_cur = -1 /\ \A e \in Execs : co_q[e] = <<>>

Completed == Launched /\ \A i \in 0 .. chain.depth : co_pc[i] = "gone"


\* C22: a coroutine resumed from an await (of an I/O operation or of a
\* nested task) was resumed through the dispatcher that await_suspend was
\* given for that await, on that executor's thread; and whatever coroutine
\* of a chain is running, it runs on the thread of its own executor, so a
\* task bound by run_on resumes through its bound executor and its caller
\* afterwards through the caller's.
C22_ResumedThroughPassedDispatcher ==
    /\ \A i \in Levels :
           co_pc[i] \in {"postio", "postchild"} =>
               through[i] = passed_d[i] /\ resumed_on[i] = passed_d[i]
    /\ co_cur >= 0 => co_thread = ex_[co_cur]

\* C22 witness: c1 on ex1 awaited run_on(ex2, c2), c2 awaited an I/O
\* operation of an object of ex1's context and was resumed on ex2, and c1
\* has been resumed on ex1 after c2 returned.
C22_Witness ==
    /\ Launched /\ chain.depth >= 2 /\ chain.io = "ex1"
    /\ ex_[1] = "ex1" /\ chain.bind[2] = "ex2" /\ chain.ops[2] = 1
    /\ co_left[2] = 0 /\ g_resume_count >= 1
    /\ through[2] = "ex2" /\ resumed_on[2] = "ex2"
    /\ co_cur = 1 /\ co_pc[1] = "postchild"
    /\ through[1] = "ex1" /\ resumed_on[1] = "ex1"


\* C23: on every frame allocator, no frame has been deallocated before an
\* executor has run a work item, deallocations never outnumber
\* allocations, and once the root task and every nested task have run to
\* completion the deallocate calls equal the allocate calls in number and
\* in total bytes.
C23_FramesBalanced ==
    \A a \in Allocs :
        /\ executed = 0 => stats[a].dealloc_count = 0
        /\ stats[a].dealloc_count <= stats[a].alloc_count
        /\ Completed =>
               /\ stats[a].dealloc_count = stats[a].alloc_count
               /\ stats[a].bytes_deallocated = stats[a].bytes_allocated

\* C23 witness: a chain of the greatest depth has completed, with frames
\* taken from the shared pool and from an allocator a task's argument
\* exposed.
C23_Witness ==
    /\ Completed /\ chain.depth = MaxChain
    /\ stats["custom"].dealloc_count >= 1
    /\ stats["shared"].dealloc_count >= 2
    /\ stats["custom"].alloc_count + stats["shared"].alloc_count = MaxChain + 1

\* C27: whenever the executors' queues are drained and nothing runs, every
\* I/O await that suspended has been resumed (the resume count equals the
\* suspend count, which is the number of operations the chain awaits), and
\* the root task and every nested task have run to completion; and a
\* launched chain does get there.
C27_DrainedMeansCompleted ==
    /\ [](Drained =>
              /\ g_resume_count = g_suspend_count
              /\ Completed
              /\ \A j \in 1 .. chain.depth : co_left[j] = 0)
    /\ [](g_resume_count <= g_suspend_count)
    /\ Launched ~> (Drained /\ Completed)

\* C27 witness: a chain three tasks deep, each awaiting an I/O operation
\* of its own, has completed and the queues are empty.
C27_Witness ==
    /\ Drained /\ Completed /\ chain.depth = 3
    /\ \A j \in 1 .. 3 : chain.ops[j] = 1
    /\ g_suspend_count = 3 /\ g_resume_count = 3


\* ------------------------------------------------------------- work queue

\* executor_work_queue::push(executor_work* p): the links and ends of
\* queue k afterwards.  p->next_ is not written.
push_next(k, p) ==
    IF q_tail_[k] # Null THEN [next_ EXCEPT ![q_tail_[k]] = p] ELSE next_

push_head(k, p) == IF q_tail_[k] # Null THEN q_head_[k] ELSE p

\* executor_work_queue::push(executor_work_queue& other), for a non-empty
\* other: other's head is linked behind the tail.
splice_next(k, o) ==
    IF q_tail_[k] # Null THEN [next_ EXCEPT ![q_tail_[k]] = q_head_[o]]
    ELSE next_

splice_head(k, o) == IF q_tail_[k] # Null THEN q_head_[k] ELSE q_head_[o]

\* executor_work_queue::pop(): the new head is the old head's next_, and
\* the tail is cleared when that is null.
pop_head(k) == IF q_head_[k] # Null THEN next_[q_head_[k]] ELSE Null

pop_tail(k) == IF pop_head(k) = Null THEN Null ELSE q_tail_[k]

\* An item the caller may enqueue: it is in no queue now.
Free(w) == \A k \in QIds : \A j \in 1 .. Len(enq[k]) : enq[k][j] # w

\* push(p) on queue k.
push(k, p) ==
    /\ Free(p) /\ pushes[p] < MaxPushes
    /\ next_' = push_next(k, p)
    /\ q_head_' = [q_head_ EXCEPT ![k] = push_head(k, p)]
    /\ q_tail_' = [q_tail_ EXCEPT ![k] = p]
    /\ enq' = [enq EXCEPT ![k] = Append(@, p)]
    /\ pushes' = [pushes EXCEPT ![p] = @ + 1]
    /\ pending' = [pending EXCEPT ![p] = TRUE]

\* push(other) on queue k.
push_queue(k, o) ==
    /\ k # o
    /\ IF q_head_[o] = Null
       THEN UNCHANGED <<next_, q_head_, q_tail_>>
       ELSE /\ next_' = splice_next(k, o)
            /\ q_head_' = [q_head_ EXCEPT ![k] = splice_head(k, o), ![o] = Null]
            /\ q_tail_' = [q_tail_ EXCEPT ![k] = q_tail_[o], ![o] = Null]
    /\ enq' = [enq EXCEPT ![k] = @ \o enq[o], ![o] = <<>>]

\* pop() on queue k; the item it returns is `popped` afterwards.
pop(k) ==
    /\ popped' = q_head_[k]
    /\ expected' = IF enq[k] = <<>> THEN Null ELSE Head(enq[k])
    /\ q_head_' = [q_head_ EXCEPT ![k] = pop_head(k)]
    /\ q_tail_' = [q_tail_ EXCEPT ![k] = pop_tail(k)]
    /\ enq' = [enq EXCEPT ![k] = IF @ = <<>> THEN @ ELSE Tail(@)]
    /\ UNCHANGED next_

\* The queue used on its own, as a scheduler does under its mutex.
wq_push(k, p) ==
    /\ push(k, p)
    /\ UNCHANGED <<popped, expected, ran, destroyed_n, rpc, reactor_shut,
                   doomed, shutdown_, sched_doomed, sched_destroyed>>
    /\ UNCHANGED <<ioVars, regVars, coVars, sigVars, extVars>>

wq_push_queue(k, o) ==
    /\ push_queue(k, o)
    /\ UNCHANGED <<popped, expected, pushes, pending, ran, destroyed_n, rpc,
                   reactor_shut, doomed, shutdown_, sched_doomed,
                   sched_destroyed>>
    /\ UNCHANGED <<ioVars, regVars, coVars, sigVars, extVars>>

wq_pop(k) ==
    /\ pop(k)
    /\ pending' = [w \in WorkItems |-> pending[w] /\ w # q_head_[k]]
    /\ UNCHANGED <<pushes, ran, destroyed_n, rpc, reactor_shut, doomed, shutdown_, sched_doomed,
                   sched_destroyed>>
    /\ UNCHANGED <<ioVars, regVars, coVars, sigVars, extVars>>

WqInit0 == Init /\ backend = "kqueue"

WqNext ==
    \/ \E k \in QIds, p \in WorkItems : wq_push(k, p)
    \/ \E k \in QIds, o \in QIds : wq_push_queue(k, o)
    \/ \E k \in QIds : wq_pop(k)

WqSpec == WqInit0 /\ [][WqNext]_vars

\* No item has been enqueued a second time.
FreshOnly == \A w \in WorkItems : pushes[w] <= 1

\* C24: pop() returns the oldest item enqueued and not yet popped, or null
\* when there is none, whatever pushes, splices and pops came before and
\* also when an item popped earlier was pushed again; a queue reports
\* empty exactly when nothing enqueued remains (so push(other) leaves
\* other empty and the receiver holding other's items behind its own).
C24_FifoOncePerEnqueue ==
    /\ popped = expected
    /\ \A k \in QIds : q_head_[k] = Null <=> enq[k] = <<>>
    /\ \A k \in QIds : enq[k] # <<>> => q_head_[k] = Head(enq[k])

\* C24 case reached: an item that was popped and pushed again was popped
\* once more, and the pop() after it returned an item although nothing
\* enqueued remained.
C24_PhantomItem ==
    /\ expected = Null /\ popped # Null
    /\ \E w \in WorkItems : pushes[w] = 2


\* ------------------------------------------------------------- platform reactor

\* The frame of a reactor step: the scheduler's shutdown is untouched.
ReactorFrame ==
    /\ UNCHANGED <<shutdown_, sched_doomed, sched_destroyed>>
    /\ UNCHANGED <<ioVars, regVars, coVars, sigVars, extVars>>

\* One more call, counted up to one past the enqueue bound.
Called(n) == IF n <= MaxPushes THEN n + 1 ELSE n

\* platform_reactor_impl::submit by thread t: lock, q_.push(w).
submit(t, w) ==
    /\ rpc[t] = "idle" /\ reactor_shut = "no"
    /\ push(0, w)
    /\ UNCHANGED <<popped, expected, ran, destroyed_n, rpc, reactor_shut,
                   doomed>>
    /\ ReactorFrame

\* process_multi up to its first test: the local q takes all of q_ under
\* the lock; with nothing taken the call returns.
process_begin(t) ==
    /\ rpc[t] = "idle" /\ reactor_shut = "no"
    /\ push_queue(t, 0)
    /\ rpc' = [rpc EXCEPT ![t] = IF q_head_'[t] = Null THEN "idle" ELSE "run"]
    /\ UNCHANGED <<popped, expected, pushes, pending, ran, destroyed_n,
                   reactor_shut, doomed>>
    /\ ReactorFrame

\* process_multi's inner loop: g.w = q.pop(); (*g.w)().
process_run(t) ==
    /\ rpc[t] = "run" /\ q_head_[t] # Null
    /\ pop(t)
    /\ ran' = [ran EXCEPT ![q_head_[t]] = Called(@)]
    /\ pending' = [pending EXCEPT ![q_head_[t]] = FALSE]
    /\ UNCHANGED <<pushes, destroyed_n, rpc, reactor_shut, doomed>>
    /\ ReactorFrame

\* process_multi with its local q empty: under the lock, return if q_ is
\* empty, else take what was submitted meanwhile.
process_steal(t) ==
    /\ rpc[t] = "run" /\ q_head_[t] = Null
    /\ IF q_head_[0] = Null
       THEN /\ rpc' = [rpc EXCEPT ![t] = "idle"]
            /\ UNCHANGED <<next_, q_head_, q_tail_, enq>>
       ELSE /\ push_queue(t, 0)
            /\ rpc' = rpc
    /\ UNCHANGED <<popped, expected, pushes, pending, ran, destroyed_n,
                   reactor_shut, doomed>>
    /\ ReactorFrame

\* platform_reactor_impl::shutdown takes the lock; it runs when the
\* context is destroyed, with no thread inside submit() or process().
reactor_shutdown ==
    /\ reactor_shut = "no"
    /\ \A t \in QThreads : rpc[t] = "idle"
    /\ reactor_shut' = "running"
    /\ doomed' = {w \in WorkItems : pending[w]}
    /\ UNCHANGED <<next_, q_head_, q_tail_, enq, popped, expected, pushes,
                   pending, ran, destroyed_n, rpc>>
    /\ ReactorFrame

\* One turn of shutdown's loop: q_.pop()->destroy(); the loop ends when
\* q_ reports empty.
reactor_shutdown_step ==
    /\ reactor_shut = "running"
    /\ IF q_head_[0] = Null
       THEN /\ reactor_shut' = "done"
            /\ UNCHANGED <<next_, q_head_, q_tail_, enq, popped, expected,
                           pending, destroyed_n>>
       ELSE /\ pop(0)
            /\ destroyed_n' = [destroyed_n EXCEPT ![q_head_[0]] = Called(@)]
            /\ pending' = [pending EXCEPT ![q_head_[0]] = FALSE]
            /\ reactor_shut' = reactor_shut
    /\ UNCHANGED <<pushes, ran, rpc, doomed>>
    /\ ReactorFrame

\* kqueue_scheduler::shutdown: shutdown_ is set, every queued handler is
\* popped and destroyed, and outstanding_work_ is stored as 0.  It runs
\* when the context is destroyed, with no thread inside run().
shutdown ==
    /\ ~shutdown_ /\ ~crashed
    /\ \A t \in Threads : tpc[t] = "out"
    /\ shutdown_' = TRUE
    /\ sched_doomed' = Len(completed_ops)
    /\ sched_destroyed' = Len(completed_ops)
    /\ completed_ops' = <<>>
    /\ outstanding_work' = 0
    /\ UNCHANGED <<next_, q_head_, q_tail_, enq, popped, expected, pushes,
                   pending, ran, destroyed_n, rpc, reactor_shut, doomed>>
    /\ UNCHANGED <<coVars, sigVars, extVars, regVars, backend, stopped, wakeup_pending,
                   user_work, reg, thrVars, opVars, implVars, histVars>>

ReactorInit == Init /\ backend = "kqueue"

\* Threads submitting and processing, then the reactor's shutdown.
ReactorNext ==
    \/ \E t \in QThreads, w \in WorkItems : submit(t, w)
    \/ \E t \in QThreads : process_begin(t)
    \/ \E t \in QThreads : process_run(t)
    \/ \E t \in QThreads : process_steal(t)
    \/ reactor_shutdown
    \/ reactor_shutdown_step

ReactorSpec == ReactorInit /\ [][ReactorNext]_vars


\* Threads submitting and processing, the reactor's shutdown, and a
\* scheduler that is posted to and then shut down; nothing is posted to a
\* scheduler whose context is being destroyed.
ShutdownNext ==
    \/ ReactorNext
    \/ ~shutdown_ /\ post
    \/ shutdown

ShutdownSpec == ReactorInit /\ [][ShutdownNext]_vars

\* C25: every work item still queued when the reactor or the scheduler is
\* shut down has destroy() called on it exactly once, no other item is
\* destroyed, none is executed once shutdown has begun, and after the
\* scheduler's shutdown outstanding_work is 0.
C25_QueuedDestroyedOnce ==
    /\ [](reactor_shut = "done" =>
            \A w \in WorkItems : destroyed_n[w] = IF w \in doomed THEN 1 ELSE 0)
    /\ [][reactor_shut # "no" => ran' = ran]_vars
    /\ [](shutdown_ => /\ outstanding_work = 0
                       /\ completed_ops = <<>>
                       /\ sched_destroyed = sched_doomed)

\* The reactor's shutdown has destroyed an item that was not queued.
C25_DestroyedUnqueued ==
    /\ reactor_shut = "done"
    /\ \E w \in WorkItems : w \notin doomed /\ destroyed_n[w] > 0
    /\ shutdown_ /\ sched_doomed > 0

\* C26: with threads calling submit() and process() concurrently, every
\* submitted work item is executed exactly once: never more often than it
\* was submitted, and as often once the queues are empty and every
\* process() call has returned.
C26_ExecutedExactlyOnce ==
    /\ \A w \in WorkItems : ran[w] <= pushes[w]
    /\ (reactor_shut = "no" /\ q_head_[0] = Null
            /\ \A t \in QThreads : rpc[t] = "idle")
        => \A w \in WorkItems : ran[w] = pushes[w]

\* An item was executed more often than it was submitted.
C26_ExecutedTwice ==
    \E w \in WorkItems : pushes[w] = 1 /\ ran[w] = 2


\* ------------------------------------------------------------- signal sets

\* The context whose posix_signals service owns the set.
ctx_of(s) == IF s < NumSigSets THEN 1 ELSE 2

\* The position of n in the set's sorted list, 0 when it is not there.
RegOf(s, n) ==
    IF \E i \in DOMAIN signals_[s] : signals_[s][i].signal_number = n
    THEN CHOOSE i \in DOMAIN signals_[s] : signals_[s][i].signal_number = n
    ELSE 0

\* flags & ~signal_set::dont_care, and the dont_care bit itself.
actual_flags(f) == IF f = "dont_care" THEN "none" ELSE f
is_dont_care(f) == f = "dont_care"

\* add_signal's test against registrations_[n], the newest registration of
\* n in this service: both explicit and different.
flags_conflict(f, existing_flags) ==
    /\ ~is_dont_care(f) /\ ~is_dont_care(existing_flags)
    /\ actual_flags(f) # actual_flags(existing_flags)

\* The list with new_reg linked in before the first larger number.
insert_in_set(regs, new_reg) ==
    SelectSeq(regs, LAMBDA r : r.signal_number < new_reg.signal_number)
        \o <<new_reg>>
        \o SelectSeq(regs, LAMBDA r : r.signal_number > new_reg.signal_number)

\* The registrations of n that exist, as <<set, flags>>.
LiveRegs(n) ==
    {<<s, signals_[s][RegOf(s, n)].flags>> :
        s \in {t \in SigSets : impl_live[t] /\ RegOf(t, n) # 0}}

\* Some registration of n carries explicit flags different from explicit f.
Disagrees(n, f) ==
    \E r \in LiveRegs(n) : flags_conflict(f, r[2])

\* posix_signals::add_signal under both mutexes.
add_signal(s, n, f) ==
    LET c == ctx_of(s)
        table == registrations_[c][n]
        rejected == table # <<>> /\
                    flags_conflict(f, signals_[Head(table)][RegOf(Head(table), n)].flags)
        new_reg == [signal_number |-> n, flags |-> f, undelivered |-> 0]
    IN  /\ impl_live[s]
        /\ IF backend = "kqueue" /\ f \notin {"none", "dont_care"}
           THEN /\ last_add' = [ec |-> "operation_not_supported",
                                conflict |-> Disagrees(n, f)]
                /\ UNCHANGED <<signals_, registrations_, registration_count,
                               registration_count_, handler>>
           ELSE IF RegOf(s, n) # 0
           THEN /\ last_add' = [ec |-> "ok", conflict |-> Disagrees(n, f)]
                /\ UNCHANGED <<signals_, registrations_, registration_count,
                               registration_count_, handler>>
           ELSE IF rejected
           THEN /\ last_add' = [ec |-> "invalid_argument",
                                conflict |-> Disagrees(n, f)]
                /\ UNCHANGED <<signals_, registrations_, registration_count,
                               registration_count_, handler>>
           ELSE /\ last_add' = [ec |-> "ok", conflict |-> Disagrees(n, f)]
                /\ handler' = IF registration_count[n] = 0
                              THEN [handler EXCEPT ![n] = "corosio"]
                              ELSE handler
                /\ signals_' = [signals_ EXCEPT ![s] = insert_in_set(@, new_reg)]
                /\ registrations_' = [registrations_ EXCEPT ![c][n] = <<s>> \o @]
                /\ registration_count' = [registration_count EXCEPT ![n] = @ + 1]
                /\ registration_count_' =
                       [registration_count_ EXCEPT ![c][n] = @ + 1]
        /\ UNCHANGED <<impl_live, svc_live, waiting_, sig_pc,
                       op_signal_number, op_svc, aw_out, wait_result,
                       sig_stopped, sig_work>>
        /\ UNCHANGED <<ioVars, regVars, coVars, wqVars, extVars>>

\* What remove_signal and clear_signals do for the numbers ns of set s:
\* SIG_DFL when the global count is 1, unlink from set and table, both
\* counts down.
Unregister(s, ns) ==
    /\ handler' = [n \in Signals |->
                     IF n \in ns /\ registration_count[n] = 1
                     THEN "SIG_DFL" ELSE handler[n]]
    /\ signals_' = [signals_ EXCEPT ![s] =
                       SelectSeq(@, LAMBDA r : r.signal_number \notin ns)]
    /\ registrations_' = [registrations_ EXCEPT ![ctx_of(s)] =
                             [n \in Signals |->
                                 IF n \in ns
                                 THEN SelectSeq(@[n], LAMBDA x : x # s)
                                 ELSE @[n]]]
    /\ registration_count' = [n \in Signals |->
                                 IF n \in ns THEN registration_count[n] - 1
                                 ELSE registration_count[n]]
    /\ registration_count_' = [registration_count_ EXCEPT ![ctx_of(s)] =
                                  [n \in Signals |->
                                      IF n \in ns THEN @[n] - 1 ELSE @[n]]]

\* The numbers registered in set s.
RegisteredIn(s) == {signals_[s][i].signal_number : i \in DOMAIN signals_[s]}

\* posix_signals::remove_signal.
remove_signal(s, n) ==
    /\ impl_live[s]
    /\ Unregister(s, {n} \cap RegisteredIn(s))
    /\ UNCHANGED <<impl_live, svc_live, waiting_, sig_pc,
                   op_signal_number, op_svc, aw_out, wait_result, sig_stopped,
                   sig_work, last_add>>
    /\ UNCHANGED <<ioVars, regVars, coVars, wqVars, extVars>>

\* posix_signals::clear_signals.
clear_signals(s) ==
    /\ impl_live[s]
    /\ Unregister(s, RegisteredIn(s))
    /\ UNCHANGED <<impl_live, svc_live, waiting_, sig_pc,
                   op_signal_number, op_svc, aw_out, wait_result, sig_stopped,
                   sig_work, last_add>>
    /\ UNCHANGED <<ioVars, regVars, coVars, wqVars, extVars>>

\* A cancel that does not test waiting_: it completes the wait also when a
\* delivery has already posted the op.
CancelEffectUnclaimed(s) ==
    IF waiting_[s] \/ sig_pc[s] = "queued"
    THEN /\ waiting_' = [waiting_ EXCEPT ![s] = FALSE]
         /\ aw_out' = [aw_out EXCEPT ![s] = [ec |-> "canceled", n |-> 0]]
         /\ sig_pc' = [sig_pc EXCEPT ![s] = "posted"]
         /\ sig_work' = [sig_work EXCEPT ![ctx_of(s)] = @ - 1]
    ELSE UNCHANGED <<waiting_, aw_out, sig_pc, sig_work>>

\* What cancel_wait does to set s: a waiting op completes with canceled,
\* its handle is posted and the work count is given back.
CancelEffect(s) ==
    IF waiting_[s]
    THEN /\ waiting_' = [waiting_ EXCEPT ![s] = FALSE]
         /\ aw_out' = [aw_out EXCEPT ![s] = [ec |-> "canceled", n |-> 0]]
         /\ sig_pc' = [sig_pc EXCEPT ![s] = "posted"]
         /\ sig_work' = [sig_work EXCEPT ![ctx_of(s)] = @ - 1]
    ELSE UNCHANGED <<waiting_, aw_out, sig_pc, sig_work>>

\* signal_set::cancel -> posix_signals::cancel_wait.
cancel_wait(s) ==
    /\ impl_live[s]
    /\ CancelEffect(s)
    /\ UNCHANGED <<signals_, registrations_, registration_count,
                   registration_count_, handler, impl_live, svc_live,
                   op_signal_number, op_svc, wait_result, sig_stopped, last_add>>
    /\ UNCHANGED <<ioVars, regVars, coVars, wqVars, extVars>>

\* ~signal_set -> posix_signal_impl::release: clear(), cancel(),
\* destroy_impl.  The set is not destroyed while its op sits in the
\* scheduler's queue.
signal_release(s) ==
    /\ impl_live[s] /\ sig_pc[s] # "queued"
    /\ Unregister(s, RegisteredIn(s))
    /\ CancelEffect(s)
    /\ impl_live' = [impl_live EXCEPT ![s] = FALSE]
    /\ UNCHANGED <<svc_live, op_signal_number, op_svc,
                   wait_result, sig_stopped, last_add>>
    /\ UNCHANGED <<ioVars, regVars, coVars, wqVars, extVars>>

\* posix_signals::shutdown, followed by the service's destructor: every
\* remaining impl and its registrations are deleted and the service leaves
\* service_list; the tables, the counts and the handlers are not touched.
signals_shutdown(c) ==
    /\ svc_live[c]
    /\ svc_live' = [svc_live EXCEPT ![c] = FALSE]
    /\ impl_live' = [s \in SigSets |-> impl_live[s] /\ ctx_of(s) # c]
    /\ signals_' = [s \in SigSets |-> IF ctx_of(s) = c THEN <<>> ELSE signals_[s]]
    /\ UNCHANGED <<registrations_, registration_count,
                   registration_count_, handler, waiting_, sig_pc,
                   op_signal_number, op_svc, aw_out, wait_result, sig_stopped,
                   sig_work, last_add>>
    /\ UNCHANGED <<ioVars, regVars, coVars, wqVars, extVars>>

\* The first registration of the set with a queued delivery, 0 if none.
first_undelivered(s) ==
    IF \E i \in DOMAIN signals_[s] : signals_[s][i].undelivered > 0
    THEN CHOOSE i \in DOMAIN signals_[s] :
            /\ signals_[s][i].undelivered > 0
            /\ \A j \in 1 .. i - 1 : signals_[s][j].undelivered = 0
    ELSE 0

\* wait_awaitable::await_suspend -> posix_signal_impl::wait ->
\* posix_signals::start_wait.  await_ready tests the awaitable's own
\* token_, which is still empty, so the wait always suspends.
signal_wait(s) ==
    /\ impl_live[s] /\ sig_pc[s] \in {"idle", "resumed"}
    /\ IF sig_stopped[s]
       THEN /\ aw_out' = [aw_out EXCEPT ![s] = [ec |-> "canceled", n |-> 0]]
            /\ sig_pc' = [sig_pc EXCEPT ![s] = "posted"]
            /\ op_signal_number' = [op_signal_number EXCEPT ![s] = 0]
            /\ UNCHANGED <<signals_, waiting_, op_svc, sig_work>>
       ELSE IF first_undelivered(s) # 0
       THEN /\ signals_' = [signals_ EXCEPT ![s][first_undelivered(s)].undelivered = @ - 1]
            /\ op_signal_number' = [op_signal_number EXCEPT ![s] =
                   signals_[s][first_undelivered(s)].signal_number]
            /\ op_svc' = [op_svc EXCEPT ![s] = FALSE]
            /\ sig_pc' = [sig_pc EXCEPT ![s] = "queued"]
            /\ UNCHANGED <<waiting_, aw_out, sig_work>>
       ELSE /\ waiting_' = [waiting_ EXCEPT ![s] = TRUE]
            /\ op_svc' = [op_svc EXCEPT ![s] = TRUE]
            /\ op_signal_number' = [op_signal_number EXCEPT ![s] = 0]
            /\ sig_work' = [sig_work EXCEPT ![ctx_of(s)] = @ + 1]
            /\ sig_pc' = [sig_pc EXCEPT ![s] = "waiting"]
            /\ UNCHANGED <<signals_, aw_out>>
    /\ UNCHANGED <<registrations_, registration_count,
                   registration_count_, handler, impl_live, svc_live,
                   wait_result, sig_stopped, last_add>>
    /\ UNCHANGED <<ioVars, regVars, coVars, wqVars, extVars>>

\* The sets that deliver_signal(n) reaches: the table entries of the
\* services in service_list.
Reached(n) ==
    {s \in SigSets : /\ svc_live[ctx_of(s)]
                     /\ \E i \in DOMAIN registrations_[ctx_of(s)][n] :
                            registrations_[ctx_of(s)][n][i] = s}

\* A deliver_signal that counts nothing for an owner that is not waiting.
deliver_signal_dropping(n) ==
    /\ handler[n] = "corosio"
    /\ waiting_' = [s \in SigSets |-> waiting_[s] /\ s \notin Reached(n)]
    /\ op_signal_number' = [s \in SigSets |->
           IF s \in Reached(n) /\ waiting_[s] THEN n ELSE op_signal_number[s]]
    /\ sig_pc' = [s \in SigSets |->
           IF s \in Reached(n) /\ waiting_[s] THEN "queued" ELSE sig_pc[s]]
    /\ UNCHANGED <<signals_, registrations_, registration_count,
                   registration_count_, handler, impl_live, svc_live, op_svc,
                   aw_out, wait_result, sig_stopped, sig_work, last_add>>
    /\ UNCHANGED <<ioVars, regVars, coVars, wqVars, extVars>>

\* corosio_posix_signal_handler -> posix_signals::deliver_signal: a waiting
\* owner's op is posted, any other registration counts the delivery.
deliver_signal(n) ==
    /\ handler[n] = "corosio"
    /\ \A s \in Reached(n) :
          waiting_[s] \/ signals_[s][RegOf(s, n)].undelivered < MaxUndelivered
    /\ waiting_' = [s \in SigSets |-> waiting_[s] /\ s \notin Reached(n)]
    /\ op_signal_number' = [s \in SigSets |->
           IF s \in Reached(n) /\ waiting_[s] THEN n ELSE op_signal_number[s]]
    /\ sig_pc' = [s \in SigSets |->
           IF s \in Reached(n) /\ waiting_[s] THEN "queued" ELSE sig_pc[s]]
    /\ signals_' = [s \in SigSets |->
           IF s \in Reached(n) /\ ~waiting_[s]
           THEN [signals_[s] EXCEPT ![RegOf(s, n)].undelivered = @ + 1]
           ELSE signals_[s]]
    /\ UNCHANGED <<registrations_, registration_count,
                   registration_count_, handler, impl_live, svc_live, op_svc,
                   aw_out, wait_result, sig_stopped, sig_work, last_add>>
    /\ UNCHANGED <<ioVars, regVars, coVars, wqVars, extVars>>

\* signal_op::operator(), run by the scheduler: the outputs are written,
\* the handle is posted, and the work count is given back if svc was set.
signal_op_run(s) ==
    /\ sig_pc[s] = "queued"
    /\ aw_out' = [aw_out EXCEPT ![s] = [ec |-> "ok", n |-> op_signal_number[s]]]
    /\ op_svc' = [op_svc EXCEPT ![s] = FALSE]
    /\ sig_work' = [sig_work EXCEPT ![ctx_of(s)] = IF op_svc[s] THEN @ - 1 ELSE @]
    /\ sig_pc' = [sig_pc EXCEPT ![s] = "posted"]
    /\ UNCHANGED <<signals_, registrations_, registration_count,
                   registration_count_, handler, impl_live, svc_live, waiting_,
                   op_signal_number, wait_result, sig_stopped, last_add>>
    /\ UNCHANGED <<ioVars, regVars, coVars, wqVars, extVars>>

\* The posted handle runs: wait_awaitable::await_resume.
signal_resume(s) ==
    /\ sig_pc[s] = "posted"
    /\ sig_pc' = [sig_pc EXCEPT ![s] = "resumed"]
    /\ wait_result' = [wait_result EXCEPT ![s] =
           IF sig_stopped[s] THEN [ec |-> "canceled", n |-> 0] ELSE aw_out[s]]
    /\ UNCHANGED <<signals_, registrations_, registration_count,
                   registration_count_, handler, impl_live, svc_live, waiting_,
                   op_signal_number, op_svc, aw_out, sig_stopped, sig_work,
                   last_add>>
    /\ UNCHANGED <<ioVars, regVars, coVars, wqVars, extVars>>

\* The wait's stop source is triggered.  Neither wait nor start_wait
\* registers a stop callback, so nothing else happens.
request_stop(s) ==
    /\ ~sig_stopped[s]
    /\ sig_stopped' = [sig_stopped EXCEPT ![s] = TRUE]
    /\ UNCHANGED <<signals_, registrations_, registration_count,
                   registration_count_, handler, impl_live, svc_live, waiting_,
                   sig_pc, op_signal_number, op_svc, aw_out, wait_result,
                   sig_work, last_add>>
    /\ UNCHANGED <<ioVars, regVars, coVars, wqVars, extVars>>

\* Either build: the kqueue one supports only none and dont_care.
SigInit0 == Init

\* The number of registrations that exist.
RECURSIVE TotalRegs(_)
TotalRegs(S) ==
    IF S = {} THEN 0
    ELSE LET s == CHOOSE t \in S : TRUE
         IN  Len(signals_[s]) + TotalRegs(S \ {s})

\* Registrations coming and going in two contexts.
SigNext ==
    \/ /\ TotalRegs(SigSets) < MaxRegs
       /\ \E s \in SigSets, n \in Signals, f \in SigFlags : add_signal(s, n, f)
    \/ \E s \in SigSets, n \in Signals : remove_signal(s, n)
    \/ \E s \in SigSets : clear_signals(s)
    \/ \E s \in SigSets : signal_release(s)
    \/ \E c \in SigCtxs : signals_shutdown(c)

SigSpec == SigInit0 /\ [][SigNext]_vars


\* A service was shut down while its table still held registrations.
Leaked ==
    \E c \in SigCtxs, n \in Signals : ~svc_live[c] /\ registrations_[c][n] # <<>>

\* C28: for every signal number the global registration count equals the
\* number of live registrations of it across all sets and contexts, and
\* the process-level handler is installed exactly while that number is
\* greater than zero, after any sequence of add, remove, clear, signal-set
\* destruction and service shutdown.
C28_HandlerIffRegistered ==
    \A n \in Signals :
        /\ registration_count[n] = Cardinality(LiveRegs(n))
        /\ handler[n] = "corosio" <=> Cardinality(LiveRegs(n)) > 0

\* After a shutdown no registration of n is left, yet the count is
\* positive and the handler installed.
C28_StaleCountAfterShutdown ==
    \E n \in Signals :
        /\ \E c \in SigCtxs : ~svc_live[c]
        /\ LiveRegs(n) = {}
        /\ registration_count[n] > 0 /\ handler[n] = "corosio"

\* Two live registrations of one signal with disagreeing explicit flags.
Coexist ==
    \E n \in Signals : \E r1, r2 \in LiveRegs(n) : flags_conflict(r1[2], r2[2])

\* C29: an add(signal, flags) that meets a registration of the same signal
\* with different flags, neither side dont_care, is rejected with
\* invalid-argument and leaves every set and every count unchanged; so two
\* registrations of one signal with disagreeing explicit flags never
\* coexist.
C29_ConflictingAddRejected ==
    /\ [](last_add.conflict => last_add.ec = "invalid_argument")
    /\ [][last_add' # last_add /\ last_add'.conflict =>
            UNCHANGED <<signals_, registrations_, registration_count,
                        registration_count_, handler>>]_vars
    /\ [](~Coexist)

\* Registrations of one service with disagreeing explicit flags coexist
\* after an add that returned success.
C29_DisagreeingCoexist ==
    /\ last_add = [ec |-> "ok", conflict |-> TRUE]
    /\ \E n \in Signals : \E r1, r2 \in LiveRegs(n) :
          flags_conflict(r1[2], r2[2]) /\ ctx_of(r1[1]) = ctx_of(r2[1])


\* The set that is waited on, and the sets that register signals: one in
\* each context.
WaitSets == {1}
RegSets == {1, NumSigSets}

\* Waits on a set, with signals delivered, waits cancelled and the stop
\* token triggered at any moment.
SigWaitNext ==
    \/ /\ TotalRegs(SigSets) < MaxRegs
       /\ \E s \in RegSets, n \in Signals : add_signal(s, n, "none")
    \/ \E s \in RegSets : clear_signals(s)
    \/ \E s \in WaitSets : signal_wait(s)
    \/ \E n \in Signals : deliver_signal(n)
    \/ \E s \in WaitSets : signal_op_run(s)
    \/ \E s \in WaitSets : signal_resume(s)
    \/ \E s \in WaitSets : cancel_wait(s)
    \/ \E s \in WaitSets : request_stop(s)

SigWaitSpec == SigInit0 /\ [][SigWaitNext]_vars

\* The scheduler runs every op posted to it and every handle posted to the
\* executor; signals and cancel() calls come only if the environment
\* sends them.
FairSigWaitSpec ==
    /\ SigWaitSpec
    /\ \A s \in WaitSets : WF_vars(signal_op_run(s)) /\ WF_vars(signal_resume(s))

\* C30: once the stop token of a signal-set wait is triggered, before the
\* wait starts or while it is pending, the wait completes with canceled
\* and its coroutine is resumed, whether or not a signal is delivered.
C30_StopCompletesWait ==
    \A s \in WaitSets :
        (sig_stopped[s] /\ sig_pc[s] \in {"waiting", "queued", "posted"})
            ~> (sig_pc[s] = "resumed" /\ wait_result[s].ec = "canceled")

\* A wait is pending with its stop token triggered and nothing posted.
C30_StoppedStillWaiting ==
    \E s \in WaitSets :
        /\ sig_stopped[s] /\ sig_pc[s] = "waiting" /\ waiting_[s]
        /\ sig_work[ctx_of(s)] > 0


\* ------------------------------------------------------------- op slots

\* The slot's coroutine has been resumed (or never suspended on it) and no
\* start call on the slot is still running: the caller may start the next
\* operation of this kind.
Startable(o) == ~inflight[o] /\ spc[o] = "none"

PoolThreads == 1 .. NumPoolThreads
Blocks == 1 .. MaxBlocks

\* sizeof(frame_pool::block): a pointer and a size_t.
BlockHeader == 16

\* A pop that unlinks the head whatever its size.
first_fit_head(list, n) == IF list = <<>> THEN 0 ELSE 1

\* The walk of local_pool::pop and global_pool::pop: the position of the
\* first block whose size is at least n + sizeof(block), 0 for nullptr.
first_fit(list, n) ==
    LET fits == {i \in 1 .. Len(list) : block_size[list[i]] >= n + BlockHeader}
    IN  IF fits = {} THEN 0
        ELSE CHOOSE i \in fits : \A j \in fits : i <= j

\* `*pp = p->next`: the list without its i-th block.
unlink(list, i) == SubSeq(list, 1, i - 1) \o SubSeq(list, i + 1, Len(list))

\* frame_pool::allocate(n) on thread t: the thread's list, then the global
\* list, then operator new(n + sizeof(block)) with size set to the total.
allocate(t, n) ==
    LET l == first_fit(local_head[t], n)
        g == first_fit(global_head, n)
        fresh == {b \in Blocks : block_at[b] = "none"}
    IN  /\ IF l # 0
           THEN /\ local_head' = [local_head EXCEPT ![t] = unlink(@, l)]
                /\ block_at' = [block_at EXCEPT ![local_head[t][l]] = "held"]
                /\ block_n' = [block_n EXCEPT ![local_head[t][l]] = n]
                /\ block_from' = [block_from EXCEPT ![local_head[t][l]] = "local"]
                /\ UNCHANGED <<global_head, block_size>>
           ELSE IF g # 0
           THEN /\ global_head' = unlink(global_head, g)
                /\ block_at' = [block_at EXCEPT ![global_head[g]] = "held"]
                /\ block_n' = [block_n EXCEPT ![global_head[g]] = n]
                /\ block_from' = [block_from EXCEPT ![global_head[g]] = "global"]
                /\ UNCHANGED <<local_head, block_size>>
           ELSE /\ fresh # {}
                /\ LET b == CHOOSE x \in fresh : \A y \in fresh : x <= y
                   IN  /\ block_size' = [block_size EXCEPT ![b] = n + BlockHeader]
                       /\ block_at' = [block_at EXCEPT ![b] = "held"]
                       /\ block_n' = [block_n EXCEPT ![b] = n]
                       /\ block_from' = [block_from EXCEPT ![b] = "new"]
                /\ UNCHANGED <<local_head, global_head>>
        /\ UNCHANGED <<ioVars, regVars, coVars, wqVars, sigVars, accVars>>

\* frame_pool::deallocate(p, size) on thread t: the block goes to the head
\* of that thread's list; the size argument is not used.
deallocate(t, b) ==
    /\ block_at[b] = "held"
    /\ local_head' = [local_head EXCEPT ![t] = <<b>> \o @]
    /\ block_at' = [block_at EXCEPT ![b] = "pool"]
    /\ UNCHANGED <<global_head, block_size, block_n, block_from>>
    /\ UNCHANGED <<ioVars, regVars, coVars, wqVars, sigVars, accVars>>

\* global_pool::push(b), given the head block of thread t's list.
global_push(t) ==
    /\ local_head[t] # <<>>
    /\ global_head' = <<Head(local_head[t])>> \o global_head
    /\ local_head' = [local_head EXCEPT ![t] = Tail(@)]
    /\ UNCHANGED <<block_size, block_at, block_n, block_from>>
    /\ UNCHANGED <<ioVars, regVars, coVars, wqVars, sigVars, accVars>>

FpInit0 == Init /\ backend = "kqueue"

FpNext ==
    \/ \E t \in PoolThreads, n \in 1 .. MaxFrame : allocate(t, n)
    \/ \E t \in PoolThreads, b \in Blocks : deallocate(t, b)
    \/ \E t \in PoolThreads : global_push(t)

FpSpec == FpInit0 /\ [][FpNext]_vars

\* C34: a block an allocate(n) returned, from the thread's list, the global
\* list or operator new, has size at least n + sizeof(block).
C34_BlockLargeEnough ==
    \A b \in Blocks :
        block_at[b] = "held" => block_size[b] >= block_n[b] + BlockHeader

\* C34 witness: allocate(n) passed over a smaller block in the caller's
\* list and returned a larger one from the global list.
C34_Witness ==
    \E b, c \in Blocks, t \in PoolThreads :
        /\ block_at[b] = "held" /\ block_from[b] = "global"
        /\ local_head[t] # <<>> /\ Head(local_head[t]) = c
        /\ block_size[c] < block_n[b] + BlockHeader
        /\ \E d \in Blocks : block_at[d] = "held" /\ block_from[d] = "local"


\* The undelivered count of set s for signal n.
Undelivered(sigs, s, n) == sigs[s][RegOf(s, n)].undelivered

\* C35: a delivery of signal n is accounted for once in every set that has
\* n registered: a pending wait of the set is completed with n and the
\* set's counts stay as they were; without a pending wait the count of
\* that registration grows by one, and a later wait that is not stopped
\* takes a counted delivery at once: it is queued with that signal number
\* and the count drops by one.  The queued op hands its number and no error
\* to the waiter.
C35_DeliveryAccountedOnce ==
    /\ [][\A n \in Signals : deliver_signal(n) =>
            \A s \in SigSets : n \in RegisteredIn(s) =>
                IF waiting_[s]
                THEN /\ ~waiting_'[s] /\ sig_pc'[s] = "queued"
                     /\ op_signal_number'[s] = n
                     /\ signals_'[s] = signals_[s]
                ELSE /\ Undelivered(signals_', s, n) = Undelivered(signals_, s, n) + 1
                     /\ sig_pc'[s] = sig_pc[s]
                     /\ op_signal_number'[s] = op_signal_number[s]]_vars
    /\ [][\A s \in WaitSets :
            signal_wait(s) /\ ~sig_stopped[s] /\ first_undelivered(s) # 0 =>
                LET n == signals_[s][first_undelivered(s)].signal_number
                IN  /\ sig_pc'[s] = "queued" /\ op_signal_number'[s] = n
                    /\ Undelivered(signals_', s, n) = Undelivered(signals_, s, n) - 1
                    /\ ~waiting_'[s]]_vars
    /\ [][\A s \in WaitSets :
            sig_pc[s] = "queued" =>
                IF sig_pc'[s] = "queued"
                THEN op_signal_number'[s] = op_signal_number[s]
                ELSE aw_out'[s] = [ec |-> "ok", n |-> op_signal_number[s]]]_vars
    /\ [][\A s \in WaitSets :
            sig_pc[s] = "posted" /\ sig_pc'[s] = "resumed" /\ ~sig_stopped[s]
                => wait_result'[s] = aw_out[s]]_vars

\* C35 witness: one wait of the set was completed by a delivery, and the
\* next wait has just taken the only counted delivery of a registration.
C35_Witness ==
    \E s \in WaitSets, n \in Signals :
        /\ sig_pc[s] = "queued" /\ ~op_svc[s] /\ op_signal_number[s] = n
        /\ n \in RegisteredIn(s) /\ Undelivered(signals_, s, n) = 0
        /\ wait_result[s].ec = "ok" /\ wait_result[s].n \in Signals


\* ------------------------------------------------------------- work counting

\* The scheduler with posts, external work, handlers run under work_guard,
\* stop and restart; one signal set whose waits are started, completed by
\* a delivery or cancelled; and the scheduler's shutdown when the context
\* is destroyed, after which nothing is called on it.
WorkNext ==
    \/ ~shutdown_ /\ SchedNext
    \/ ~shutdown_ /\ add_signal(1, 1, "none")
    \/ ~shutdown_ /\ signal_wait(1)
    \/ ~shutdown_ /\ deliver_signal(1)
    \/ ~shutdown_ /\ signal_op_run(1)
    \/ ~shutdown_ /\ signal_resume(1)
    \/ ~shutdown_ /\ cancel_wait(1)
    \/ shutdown

WorkSpec == SchedInit /\ [][WorkNext]_vars

\* C36: outstanding_work_ never goes below zero: neither the part counted
\* by post, on_work_started and the handlers' work_guard, nor the part the
\* signal service adds in start_wait and gives back in cancel_wait or
\* through the completed op.
C36_WorkNeverNegative ==
    /\ outstanding_work >= 0
    /\ \A c \in DOMAIN sig_work : sig_work[c] >= 0

\* C36 witness: a signal wait was cancelled and gave its count back, the
\* scheduler stopped itself when external work ended, and shutdown then
\* reset the counter with counted items still queued.
C36_Witness ==
    /\ shutdown_ /\ sched_destroyed > 0 /\ outstanding_work = 0
    /\ stopped /\ user_work = 0
    /\ sig_pc[1] = "resumed" /\ wait_result[1].ec = "canceled"
    /\ sig_work[1] = 0
    /\ \E t \in Threads : ret[t] = "stopped"


\* C37: a pending wait is completed once, by the delivery or by cancel():
\* the wait is claimed (waiting_) exactly while it is pending; it leaves the
\* pending state either queued with a delivered signal number or posted
\* with canceled and 0; a queued op is not touched by cancel() and posts no
\* error with its number; the outputs of a posted wait are not rewritten
\* before the coroutine resumes with them; and cancel() leaves the set's
\* registrations and the tables as they were.
C37_WaitCompletedOnce ==
    /\ [](\A s \in WaitSets : waiting_[s] <=> sig_pc[s] = "waiting")
    /\ [][\A s \in WaitSets :
            sig_pc[s] = "waiting" /\ sig_pc'[s] # "waiting" =>
                \/ /\ sig_pc'[s] = "queued"
                   /\ op_signal_number'[s] \in Signals
                   /\ aw_out'[s] = aw_out[s]
                \/ /\ sig_pc'[s] = "posted"
                   /\ aw_out'[s] = [ec |-> "canceled", n |-> 0]]_vars
    /\ [][\A s \in WaitSets :
            sig_pc[s] = "queued" /\ sig_pc'[s] # "queued" =>
                /\ sig_pc'[s] = "posted"
                /\ aw_out'[s].ec = "ok" /\ aw_out'[s].n \in Signals]_vars
    /\ [][\A s \in WaitSets :
            sig_pc[s] = "posted" =>
                /\ aw_out'[s] = aw_out[s]
                /\ sig_pc'[s] \in {"posted", "resumed"}
                /\ sig_pc'[s] = "resumed" =>
                      \/ wait_result'[s] = aw_out[s]
                      \/ wait_result'[s] = [ec |-> "canceled", n |-> 0]]_vars
    /\ [][\A s \in WaitSets :
            cancel_wait(s) =>
                /\ signals_' = signals_ /\ registrations_' = registrations_
                /\ registration_count' = registration_count
                /\ handler' = handler]_vars

\* C37 witness: a pending wait was cancelled and a signal of the set was
\* delivered before the coroutine resumed; the delivery is counted and the
\* wait stays completed with canceled.
C37_Witness ==
    \E s \in WaitSets, n \in Signals :
        /\ sig_pc[s] = "posted" /\ ~sig_stopped[s]
        /\ aw_out[s] = [ec |-> "canceled", n |-> 0]
        /\ n \in RegisteredIn(s) /\ Undelivered(signals_, s, n) = 1


\* ------------------------------------------------------------- accept op

AccFrame == UNCHANGED <<ioVars, regVars, coVars, wqVars, sigVars, fpVars>>

\* What ::accept reports: a connection, EAGAIN, or another error.
AcceptOutcomes == {"conn", "again", "err"}

\* The op after accept()'s or perform_io's ::accept returned a descriptor:
\* the kqueue backend creates the peer impl at once, the select backend
\* only stores the descriptor.
Accepted ==
    /\ accepted_fd' = "open"
    /\ peer_impl' = IF backend = "kqueue" THEN "held" ELSE "none"
    /\ acc_errn' = 0

\* kqueue_acceptor_impl::accept / select_acceptor_impl::accept: reset(),
\* start(token), try ::accept, then post the op or register it.  The
\* awaitable's error_code starts out as no error.
accept(out) ==
    /\ acc_pc \in {"idle", "done"} /\ accepts < MaxAccepts
    /\ accepts' = accepts + 1
    /\ acc_cancelled' = FALSE
    /\ acc_stop_cb' = TRUE
    /\ acc_ec_out' = "ok"
    /\ impl_out' = "unset"
    /\ acc_success' = FALSE
    /\ CASE out = "conn" ->
              /\ Accepted
              /\ acc_pc' = "queued"
              /\ acc_registered' = FALSE
         [] out = "again" ->
              /\ acc_registered' = TRUE
              /\ acc_pc' = "registered"
              /\ acc_errn' = 0
              /\ accepted_fd' = "none"
              /\ peer_impl' = "none"
         [] OTHER ->
              /\ acc_errn' = 1
              /\ acc_pc' = "queued"
              /\ acc_registered' = FALSE
              /\ accepted_fd' = "none"
              /\ peer_impl' = "none"
    /\ AccFrame

\* The reactor claims the registered op and runs perform_io, then queues it.
accept_perform_io(out) ==
    /\ acc_pc = "registered" /\ acc_registered
    /\ acc_registered' = FALSE
    /\ acc_pc' = "queued"
    /\ IF out = "conn"
       THEN Accepted
       ELSE /\ acc_errn' = 1
            /\ UNCHANGED <<accepted_fd, peer_impl>>
    /\ UNCHANGED <<acc_cancelled, acc_success, acc_stop_cb, acc_ec_out,
                   impl_out, accepts>>
    /\ AccFrame

\* kqueue_acceptor_impl::cancel / select_acceptor_impl::cancel, from any
\* thread: the registration is taken, cancelled is stored, and the op is
\* posted if it was registered.
acceptor_cancel ==
    /\ acc_pc # "idle"
    /\ acc_cancelled' = TRUE
    /\ acc_registered' = FALSE
    /\ acc_pc' = IF acc_registered THEN "queued" ELSE acc_pc
    /\ UNCHANGED <<acc_errn, accepted_fd, peer_impl, acc_success, acc_stop_cb,
                   acc_ec_out, impl_out, accepts>>
    /\ AccFrame

\* The stop callback: kqueue's canceller only stores cancelled; select's
\* goes through cancel_single_op and posts a registered op.
accept_canceller ==
    /\ acc_stop_cb
    /\ acc_stop_cb' = FALSE
    /\ acc_cancelled' = TRUE
    /\ IF backend = "select"
       THEN /\ acc_registered' = FALSE
            /\ acc_pc' = IF acc_registered THEN "queued" ELSE acc_pc
       ELSE UNCHANGED <<acc_registered, acc_pc>>
    /\ UNCHANGED <<acc_errn, accepted_fd, peer_impl, acc_success, acc_ec_out,
                   impl_out, accepts>>
    /\ AccFrame

\* An operator() that reads cancelled once and uses that value for the
\* error code as well.
accept_op_finish_one_load ==
    /\ acc_pc = "loaded"
    /\ acc_pc' = "done"
    /\ acc_ec_out' = IF ~acc_success /\ acc_errn = 0 THEN "canceled"
                     ELSE IF acc_errn # 0 THEN "error"
                     ELSE "ok"
    /\ IF acc_success /\ accepted_fd = "open"
          /\ (backend = "kqueue" => peer_impl = "held")
       THEN /\ impl_out' = "peer"
            /\ peer_impl' = "handed"
            /\ UNCHANGED accepted_fd
       ELSE /\ accepted_fd' = IF accepted_fd = "open" THEN "closed" ELSE accepted_fd
            /\ peer_impl' = IF peer_impl = "held" THEN "released" ELSE peer_impl
            /\ impl_out' = "null"
    /\ UNCHANGED <<acc_cancelled, acc_registered, acc_errn, acc_success,
                   acc_stop_cb, accepts>>
    /\ AccFrame

\* accept op operator(), first part: stop_cb.reset() and
\* `success = (errn == 0 && !cancelled.load())`.
accept_op_load ==
    /\ acc_pc = "queued"
    /\ acc_pc' = "loaded"
    /\ acc_stop_cb' = FALSE
    /\ acc_success' = (acc_errn = 0 /\ ~acc_cancelled)
    /\ UNCHANGED <<acc_cancelled, acc_registered, acc_errn, accepted_fd,
                   peer_impl, acc_ec_out, impl_out, accepts>>
    /\ AccFrame

\* accept op operator(), the rest: the error code is chosen by a second
\* load of cancelled, the peer is handed over or everything is released by
\* `success`.  The kqueue op leaves *ec_out alone on success; the select op
\* creates the peer impl here.
accept_op_finish ==
    /\ acc_pc = "loaded"
    /\ acc_pc' = "done"
    /\ acc_ec_out' = IF acc_cancelled THEN "canceled"
                     ELSE IF acc_errn # 0 THEN "error"
                     ELSE IF backend = "select" THEN "ok"
                     ELSE acc_ec_out
    /\ IF acc_success /\ accepted_fd = "open"
          /\ (backend = "kqueue" => peer_impl = "held")
       THEN /\ impl_out' = "peer"
            /\ peer_impl' = "handed"
            /\ UNCHANGED accepted_fd
       ELSE /\ accepted_fd' = IF accepted_fd = "open" THEN "closed" ELSE accepted_fd
            /\ peer_impl' = IF peer_impl = "held" THEN "released" ELSE peer_impl
            /\ impl_out' = "null"
    /\ UNCHANGED <<acc_cancelled, acc_registered, acc_errn, acc_success,
                   acc_stop_cb, accepts>>
    /\ AccFrame

AccNext ==
    \/ \E out \in AcceptOutcomes : accept(out)
    \/ \E out \in {"conn", "err"} : accept_perform_io(out)
    \/ acceptor_cancel
    \/ accept_canceller
    \/ accept_op_load
    \/ accept_op_finish

AccSpec == Init /\ [][AccNext]_vars

\* C38: an accept op that completed with canceled or an error left the
\* out-pointer null, closed the accepted descriptor and released the peer
\* impl; the out-pointer holds a peer only if the op completed with no
\* error.
C38_NoPeerOnFailure ==
    acc_pc = "done" =>
        /\ acc_ec_out \in {"canceled", "error"} =>
              /\ impl_out = "null"
              /\ accepted_fd # "open"
              /\ peer_impl \notin {"held", "handed"}
        /\ impl_out = "peer" => acc_ec_out = "ok"

\* An accept completed with canceled and handed a peer to the caller.
C38_CanceledWithPeer ==
    /\ acc_pc = "done" /\ acc_ec_out = "canceled"
    /\ impl_out = "peer" /\ peer_impl = "handed" /\ accepted_fd = "open"


\* C39: a cancel() with no op of the socket in flight queues nothing and
\* leaves outstanding_work_ as it was, and an op completes with canceled
\* only if a cancel() or close() came while it was in flight or its own
\* stop token is triggered by the time it resumes; a cancel() before its
\* start does not count.
C39_IdleCancelHasNoEffect ==
    /\ [][cancel /\ (\A o \in Ops : ~inflight[o]) =>
            /\ completed_ops' = completed_ops
            /\ outstanding_work' = outstanding_work
            /\ reg' = reg]_vars
    /\ [][\A o \in Ops :
            resumes[o] = 0 /\ resumes'[o] = 1 /\ Canceled(res'[o].ec) =>
                cancelseen[o] \/ tok'[o] = "fired"]_vars

\* C39 witness: the only op started so far was started after a cancel()
\* (which left `cancelled` set on the other, never started slot) and has
\* resumed with a result that is not canceled.
C39_Witness ==
    \E o, o2 \in Ops :
        /\ o # o2 /\ starts = 1
        /\ resumes[o] = 1 /\ ~Canceled(res[o].ec) /\ ~cancelseen[o]
        /\ cancelled[o2] /\ ~inflight[o2] /\ res[o2] = NoRes


\* C40: when make_service throws after it constructed its object (a service
\* answering to T or to T's key_type was registered meanwhile), the new
\* object has been destroyed, and while the registry lives no refused or
\* destroyed object is linked in it.
C40_FailedMakeDestroysInstance ==
    /\ [][\A t \in RegThreads :
            MakeFails(t) /\ Top(t).pc = "crit2" =>
                life'[Top(t).p] = "dead"]_vars
    /\ [](dtor = "none" =>
             \A i \in Insts : life[i] \in {"dead", "leak"} => i \notin Linked)

\* A make_service has thrown after construction and its object, linked
\* nowhere, has not been destroyed.
C40_RefusedInstanceLeaked ==
    \E i \in Insts : life[i] = "leak" /\ i \notin Linked

====
